---- MODULE Spec2Model ----
(***************************************************************************)
(* The provisioning scripts of the repository (startup.py, startup2.py,    *)
(* startup3.py, python.py) as one state machine over a filesystem tree.    *)
(* A session is one run of one script; `variant` says which one.           *)
(***************************************************************************)
EXTENDS Integers, Sequences, FiniteSets, TLC

\* ------------------------------------------------------------------ bounds
\* number of runs of the script on the same machine
MaxSessions == 2
\* largest value int(time.time()) takes (seconds since the first session)
MaxClock == 1
\* number of external failures (a move, a git command) injected in a behaviour
MaxFaults == 1

\* -------------------------------------------------------------- variables
VARIABLES
  fs,         \* the filesystem: a tree of nodes, rooted at a directory
  variant,    \* which script runs: "startup", "startup2", "startup3", "python"
  remote,     \* layout of the remote git repository (what a clone delivers)
  root,       \* os.geteuid() == 0 for the running process
  favorite_apps, \* the value of the key org.gnome.shell favorite-apps: a list of app ids
  pc,         \* position of the running script
  i,          \* index of the loop the script is in
  ts,         \* local variable `timestamp` (startup3.py)
  clock,      \* int(time.time())
  session,    \* number of the current run
  faults,     \* external failures injected so far
  status,     \* "Running", "Done", "Aborted"
  exitCode,   \* exit status of the process, -1 while it runs
  fs0,        \* history: fs when the current session started
  backups,    \* history: one record per executed backup move
  clobbered,  \* history: paths a copy step overwrote while they held content
  installed,  \* history: resources whose copy step has completed this session
  skipped,    \* history: missing sources the session carried on without
  failed,     \* history: positions at which a command or step of this session failed
  pkg,        \* the package whose install_* function runs ("none" outside of one)
  called,     \* number of install_* functions main has called
  cmdIx,      \* index of the command the install_* function is at
  pkgs,       \* history: per package, what this session did for it
  fetch        \* the call of the download function in progress (a fetch taken alone)

pkgVars == <<pkg, called, cmdIx, pkgs, fetch>>
\* what only the clone and resource steps change
resVars == <<variant, remote, root, favorite_apps, i, ts, clock, session, fs0, backups, clobbered,
             installed, skipped>>
vars == <<fs, variant, remote, root, favorite_apps, pc, i, ts, clock, session, faults, status,
          exitCode, fs0, backups, clobbered, installed, skipped, failed, pkgVars>>

\* ------------------------------------------------------ filesystem: nodes
NoNode == [kind |-> "none", data |-> "", kids |-> <<>>]
File(d) == [kind |-> "file", data |-> d, kids |-> <<>>]
Dir(k) == [kind |-> "dir", data |-> "", kids |-> k]
EmptyDir == Dir(<<>>)

Parent(p) == SubSeq(p, 1, Len(p) - 1)
Base(p) == p[Len(p)]
\* f"{path}{suffix}": the suffix is appended to the last component
WithSuffix(p, s) == [p EXCEPT ![Len(p)] = @ \o s]

RECURSIVE Lookup(_, _)
Lookup(n, p) ==
  IF Len(p) = 0 THEN n
  ELSE IF n.kind = "dir" /\ Head(p) \in DOMAIN n.kids
       THEN Lookup(n.kids[Head(p)], Tail(p))
       ELSE NoNode

\* os.path.exists, os.path.isdir, os.path.isfile
Exists(n, p) == Lookup(n, p).kind # "none"
IsDir(n, p) == Lookup(n, p).kind = "dir"
IsFile(n, p) == Lookup(n, p).kind = "file"

\* the tree with the entry at p set to x; missing directories on the way are made
RECURSIVE Put(_, _, _)
Put(n, p, x) ==
  IF Len(p) = 0 THEN x
  ELSE LET h == Head(p)
           old == IF n.kind = "dir" /\ h \in DOMAIN n.kids THEN n.kids[h] ELSE EmptyDir
       IN Dir((h :> Put(old, Tail(p), x)) @@ n.kids)

\* the tree without the entry at p
RECURSIVE Del(_, _)
Del(n, p) ==
  LET h == Head(p) IN
  IF n.kind # "dir" \/ h \notin DOMAIN n.kids THEN n
  ELSE IF Len(p) = 1
       THEN LET rest == DOMAIN n.kids \ {h}
            IN IF rest = {} THEN EmptyDir ELSE Dir([k \in rest |-> n.kids[k]])
       ELSE Dir((h :> Del(n.kids[h], Tail(p))) @@ n.kids)

\* every path of the tree below n, as a set of sequences
RECURSIVE AllPaths(_)
AllPaths(n) ==
  IF n.kind # "dir" THEN {}
  ELSE UNION {{<<k>>} \cup {<<k>> \o q : q \in AllPaths(n.kids[k])} : k \in DOMAIN n.kids}

\* os.makedirs(p, exist_ok=True): fails when a file is in the way
CanMakedirs(n, p) == \A k \in 1..Len(p) : ~IsFile(n, SubSeq(p, 1, k))
Makedirs(n, p) == IF IsDir(n, p) THEN n ELSE Put(n, p, EmptyDir)

\* shutil.move(src, dst): into dst when dst is a directory, else onto dst
MoveTarget(n, src, dst) == IF IsDir(n, dst) THEN Append(dst, Base(src)) ELSE dst
MoveOk(n, src, dst) ==
  LET r == MoveTarget(n, src, dst) IN
  /\ Exists(n, src)
  /\ IsDir(n, Parent(r))
  /\ IF IsDir(n, dst) THEN ~Exists(n, r)
     ELSE Exists(n, r) => IsFile(n, src)
\* a move that removes the source without writing it to the target
ShutilMoveLosesSource(n, src, dst) == Del(n, src)
ShutilMove(n, src, dst) == Put(Del(n, src), MoveTarget(n, src, dst), Lookup(n, src))

\* shutil.copy / shutil.copy2(src, dst): a file copy, into dst when dst is a directory
CopyTarget(n, src, dst) == IF IsDir(n, dst) THEN Append(dst, Base(src)) ELSE dst
CopyOk(n, src, dst) ==
  LET r == CopyTarget(n, src, dst) IN
  /\ IsFile(n, src)
  /\ IsDir(n, Parent(r))
  /\ ~IsDir(n, r)
ShutilCopy(n, src, dst) == Put(n, CopyTarget(n, src, dst), Lookup(n, src))

\* shutil.copytree: the entries of directory node s copied into directory node d
RECURSIVE MergeOk(_, _)
MergeOk(d, s) ==
  \A k \in DOMAIN s.kids :
    k \in DOMAIN d.kids =>
      /\ d.kids[k].kind = s.kids[k].kind
      /\ s.kids[k].kind = "dir" => MergeOk(d.kids[k], s.kids[k])
RECURSIVE Merge(_, _)
Merge(d, s) ==
  IF DOMAIN d.kids \cup DOMAIN s.kids = {} THEN EmptyDir
  ELSE Dir([k \in DOMAIN d.kids \cup DOMAIN s.kids |->
             IF k \notin DOMAIN s.kids THEN d.kids[k]
             ELSE IF k \in DOMAIN d.kids /\ s.kids[k].kind = "dir"
                  THEN Merge(d.kids[k], s.kids[k])
                  ELSE s.kids[k]])
CopytreeOk(n, src, dst, dirs_exist_ok) ==
  /\ IsDir(n, src)
  /\ CanMakedirs(n, dst)
  /\ Exists(n, dst) => (dirs_exist_ok /\ MergeOk(Lookup(n, dst), Lookup(n, src)))
ShutilCopytree(n, src, dst) ==
  Put(n, dst, IF IsDir(n, dst) THEN Merge(Lookup(n, dst), Lookup(n, src))
              ELSE Lookup(n, src))

\* the file paths a copytree of s into the existing directory at dst overwrites
RECURSIVE MergeClobbers(_, _, _)
MergeClobbers(d, s, at) ==
  UNION {IF k \notin DOMAIN d.kids THEN {}
         ELSE IF s.kids[k].kind = "dir" THEN MergeClobbers(d.kids[k], s.kids[k], Append(at, k))
         ELSE {Append(at, k)} : k \in DOMAIN s.kids}

\* ---------------------------------------------------------- configuration
REPO_DIRNAME == "startup"
DOWNLOADS_DIRNAME == "downloads"
GRUB_CFG_SRC == "grub.cfg"
KALI_THEME_SRC == "kali"
WALLPAPER_DIR == "wallpaper"
WALLPAPER_FILES ==
  << <<"20-wallpaper.svg", "login.svg">>,
     <<"12-wallpaper.png", "kali-maze-16x9.jpg">>,
     <<"1-wallpaper.png", "kali-tiles-16x9.jpg">>,
     <<"2-wallpaper.png", "kali-waves-16x9.png">>,
     <<"3-wallpaper.png", "kali-oleo-16x9.png">>,
     <<"4-wallpaper.png", "kali-tiles-purple-16x9.jpg">> >>
WALLPAPER_FILES_TO_BACKUP ==
  <<"kali-maze-16x9.jpg", "kali-tiles-16x9.jpg", "kali-oleo-16x9.png",
    "kali-tiles-purple-16x9.jpg", "kali-waves-16x9.png", "login.svg", "login-blurred">>
\* startup3.py's wallpaper_map, in the order the dict is iterated: <<original, new>>
wallpaper_map ==
  << <<"kali-maze-16x9.jpg", "12-wallpaper.png">>,
     <<"kali-tiles-16x9.jpg", "1-wallpaper.png">>,
     <<"kali-waves-16x9.png", "2-wallpaper.png">>,
     <<"kali-oleo-16x9.png", "3-wallpaper.png">>,
     <<"kali-tiles-purple-16x9.jpg", "4-wallpaper.png">>,
     <<"login.svg", "20-wallpaper.svg">>,
     <<"login-blurred", "2-wallpaper.png">> >>

\* absolute paths; the first component stands for a fixed directory prefix
BootGrub == <<"/boot/grub">>
grub_cfg_path == <<"/boot/grub", "grub.cfg">>
BootThemes == <<"/boot/grub", "themes">>
UsrThemes == <<"/usr/share/grub", "themes">>
boot_kali == Append(BootThemes, "kali")
usr_kali == Append(UsrThemes, "kali")
target_dir == <<"/usr/share/backgrounds/kali">>
backup_dir == Append(target_dir, "backup")
\* the working copy, relative to the directory the script is started in
repo_path == <<REPO_DIRNAME>>
downloads_dir == <<REPO_DIRNAME, DOWNLOADS_DIRNAME>>
wallpaper_repo_path == <<REPO_DIRNAME, WALLPAPER_DIR>>
tmp_dir == <<"/tmp">>
opt_telegram == <<"/opt/Telegram">>
tg_bin == Append(opt_telegram, "Telegram")

Range(s) == {s[k] : k \in DOMAIN s}

\* the cataloged destinations
WallpaperDests == {Append(target_dir, f) : f \in Range(WALLPAPER_FILES_TO_BACKUP)}
Dests == {grub_cfg_path, boot_kali, usr_kali} \cup WallpaperDests

\* ------------------------------------------------- the remote repository
WallpaperSources == {w[1] : w \in Range(WALLPAPER_FILES)}
KaliTheme == Dir([f \in {"theme.txt", "background.png"} |-> File("repo:kali/" \o f)])
WallpaperTree(names) == Dir([f \in names |-> File("repo:" \o f)])
StdRepo ==
  Dir([f \in {GRUB_CFG_SRC, KALI_THEME_SRC, WALLPAPER_DIR} |->
        IF f = GRUB_CFG_SRC THEN File("repo:grub.cfg")
        ELSE IF f = KALI_THEME_SRC THEN KaliTheme
        ELSE WallpaperTree(WallpaperSources)])
\* "std" is the layout startup.py, startup2.py and startup3.py read; "both" also holds
\* what python.py reads (wallpapers at the top, a kali entry inside kali); the others
\* are "std" with one cataloged source missing
RemoteShapes == {"std", "both", "no_grub_cfg", "no_kali", "no_wallpaper_dir", "no_wallpaper_file"}
RemoteTree(shape) ==
  IF shape = "std" THEN StdRepo
  ELSE IF shape = "both"
       THEN Put(Merge(StdRepo, WallpaperTree(WallpaperSources)),
                <<KALI_THEME_SRC, "kali">>, Dir("theme.txt" :> File("repo:kali/kali/theme.txt")))
  ELSE IF shape = "no_grub_cfg" THEN Del(StdRepo, <<GRUB_CFG_SRC>>)
  ELSE IF shape = "no_kali" THEN Del(StdRepo, <<KALI_THEME_SRC>>)
  ELSE IF shape = "no_wallpaper_dir" THEN Del(StdRepo, <<WALLPAPER_DIR>>)
  ELSE Del(StdRepo, <<WALLPAPER_DIR, "2-wallpaper.png">>)

\* what `git clone` leaves at the working copy's path
ClonedTree(shape) == Put(RemoteTree(shape), <<".git">>, EmptyDir)

\* ------------------------------------------------------- initial machines
SysTheme == Dir("theme.txt" :> File("sys:kali/theme.txt"))
\* "kali": every destination exists, and Telegram is installed; "debian": only
\* grub.cfg exists; "empty": nothing does
Machines == {"kali", "debian", "empty"}
MachineTree(m) ==
  IF m = "empty" THEN EmptyDir
  ELSE IF m = "debian" THEN Put(EmptyDir, grub_cfg_path, File("sys:grub.cfg"))
  ELSE Put(Put(Put(Put(Put(EmptyDir, grub_cfg_path, File("sys:grub.cfg")),
                       boot_kali, SysTheme),
                   usr_kali, SysTheme),
               target_dir,
               Dir([f \in Range(WALLPAPER_FILES_TO_BACKUP) |-> File("sys:" \o f)])),
           tg_bin, File("sys:Telegram"))

Variants == {"startup", "startup2", "startup3", "python"}

\* ------------------------------------------------------------ bookkeeping
\* first position of each script
StartPc(v) == IF v \in {"startup", "startup2"} THEN "require_root"
              ELSE IF v = "startup3" THEN "ensure_downloads"
              ELSE "py_root"

\* values int(time.time()) may return now: the clock never runs backwards
TimeReads == clock..MaxClock

\* the record of one executed backup move
BackupRecord(n, src, dest) ==
  [orig |-> src, chosen |-> dest, real |-> MoveTarget(n, src, dest),
   node |-> Lookup(n, src), fresh |-> ~Exists(n, dest), session |-> session]

\* an exception that reaches the top of the script: the process ends with `code`
Abort(code) == /\ pc' = "exit"
               /\ status' = "Aborted"
               /\ exitCode' = code

\* the exception of a failing step, which nothing catches before the top
Raise == /\ Abort(1)
         /\ failed' = failed \cup {pc}

Goto(next) == /\ pc' = next
              /\ UNCHANGED <<status, exitCode, failed>>

\* a make_unique_path that tries the timestamp and never the counter
MakeUniquePathNoCounter(n, path_base, t) ==
  IF ~Exists(n, path_base) THEN path_base ELSE WithSuffix(path_base, "." \o ToString(t))
\* make_unique_path(path_base), time.time() returning t
RECURSIVE UniqueCounter(_, _, _, _)
UniqueCounter(n, path_base, t, counter) ==
  LET candidate == WithSuffix(path_base, "." \o ToString(t) \o "." \o ToString(counter))
  IN IF Exists(n, candidate) THEN UniqueCounter(n, path_base, t, counter + 1) ELSE candidate
make_unique_path(n, path_base, t) ==
  IF ~Exists(n, path_base) THEN path_base
  ELSE LET candidate == WithSuffix(path_base, "." \o ToString(t))
       IN IF Exists(n, candidate) THEN UniqueCounter(n, path_base, t, 1) ELSE candidate

\* shutil.move(src, dest) of a backup step in tree n, then `next`; the move may fail
\* for a reason outside the model (a fault) or because of the tree (MoveOk)
BackupMoveIn(n, src, dest, next) ==
  \E ok \in BOOLEAN :
    /\ ~ok => faults < MaxFaults
    /\ faults' = IF ok THEN faults ELSE faults + 1
    /\ IF ok /\ MoveOk(n, src, dest)
       THEN /\ fs' = ShutilMove(n, src, dest)
            /\ backups' = backups \cup {BackupRecord(n, src, dest)}
            /\ Goto(next)
       ELSE /\ Raise
            /\ fs' = n
            /\ UNCHANGED backups
BackupMove(src, dest, next) == BackupMoveIn(fs, src, dest, next)


\* shutil.copy(src, dst) of an install step for destination d, in tree n, then `next`
CopyFile(n, src, dst, d, next) ==
  IF CopyOk(n, src, dst)
  THEN /\ fs' = ShutilCopy(n, src, dst)
       /\ clobbered' = clobbered \cup
            (IF Exists(n, CopyTarget(n, src, dst)) THEN {CopyTarget(n, src, dst)} ELSE {})
       /\ installed' = installed \cup {d}
       /\ Goto(next)
  ELSE /\ fs' = n
       /\ Raise
       /\ UNCHANGED <<clobbered, installed>>

\* shutil.copytree(src, dst) of an install step for destination d, in tree n
CopyTree(n, src, dst, dirs_exist_ok, d, next) ==
  IF CopytreeOk(n, src, dst, dirs_exist_ok)
  THEN /\ fs' = ShutilCopytree(n, src, dst)
       /\ clobbered' = clobbered \cup
            (IF IsDir(n, dst) THEN MergeClobbers(Lookup(n, dst), Lookup(n, src), dst) ELSE {})
       /\ installed' = installed \cup {d}
       /\ Goto(next)
  ELSE /\ fs' = n
       /\ Raise
       /\ UNCHANGED <<clobbered, installed>>

\* python.py's copy_file(src, dst): copytree for a directory, copy2 otherwise
CopyFileOrTree(n, src, dst, d, next) ==
  IF IsDir(n, src) THEN CopyTree(n, src, dst, TRUE, d, next)
  ELSE CopyFile(n, src, dst, d, next)

\* ------------------------------------------------------- package records
Packages == {"telegram", "protonvpn", "rustscan", "vscode", "brave"}
\* gets: network attempts made; got: attempts that delivered the file; bytes: what
\* the last of them delivered; digest: result of the SHA-256 check; ran, nonzero:
\* commands invoked, and those that returned non-zero; launch: result of starting the
\* application; outcome: how install_* ended; job: a download the shell left running
\* in the background ("none", "running", "ended")
NoRecord == [gets |-> 0, got |-> 0, bytes |-> "", digest |-> "none", ran |-> {},
             nonzero |-> {}, launch |-> "none", outcome |-> "none", job |-> "none"]
NoPackages == [p \in Packages |-> NoRecord]
\* no call of the download function taken alone
NoFetch == [state |-> "none"]

\* the favorites a session may find: none, or the shell's own entries
FavStarts == {<<>>, <<"firefox-esr.desktop", "org.gnome.Nautilus.desktop">>}

\* ------------------------------------------------------------------- Init
Init ==
  /\ variant \in Variants
  /\ remote \in RemoteShapes
  /\ root \in BOOLEAN
  /\ favorite_apps \in FavStarts
  /\ \E m \in Machines, cloned \in BOOLEAN :
       fs = IF cloned THEN Put(MachineTree(m), repo_path, ClonedTree(remote))
            ELSE MachineTree(m)
  /\ pc = StartPc(variant)
  /\ i = 1
  /\ ts = 0
  /\ clock = 0
  /\ session = 1
  /\ faults = 0
  /\ status = "Running"
  /\ exitCode = -1
  /\ fs0 = fs
  /\ backups = {}
  /\ clobbered = {}
  /\ installed = {}
  /\ skipped = {}
  /\ failed = {}
  /\ pkg = "none"
  /\ called = 0
  /\ cmdIx = 1
  /\ pkgs = NoPackages
  /\ fetch = NoFetch

\* ---------------------------------------------- startup.py and startup2.py
Checked == variant \in {"startup", "startup2"}

\* require_root: os.geteuid() is an input of the run
RequireRoot ==
  /\ Checked /\ pc = "require_root"
  /\ IF root THEN Goto("clone_repo") ELSE Abort(2) /\ UNCHANGED failed
  /\ UNCHANGED <<fs, variant, remote, root, favorite_apps, i, ts, clock, session, faults,
                 fs0, backups, clobbered, installed, skipped>>
  /\ UNCHANGED pkgVars

\* a clone_repo that removes the directory when git pull fails
CloneRepoPullRemoves ==
  /\ Checked /\ pc = "clone_repo" /\ IsDir(fs, repo_path)
  /\ \E ok \in BOOLEAN, t \in TimeReads :
       /\ ~ok => faults < MaxFaults
       /\ faults' = IF ok THEN faults ELSE faults + 1
       /\ IF ok /\ IsDir(fs, Append(repo_path, ".git"))
          THEN /\ Goto("setup_downloads")
               /\ UNCHANGED <<fs, clock>>
          ELSE LET backup_name == WithSuffix(repo_path, ".bak-" \o ToString(t))
               IN /\ clock' = t
                  /\ fs' = Del(fs, repo_path)
                  /\ Goto("git_clone")
  /\ UNCHANGED <<variant, remote, root, favorite_apps, i, ts, session, fs0, backups, clobbered, installed, skipped>>
  /\ UNCHANGED pkgVars

\* clone_repo, the directory exists: git pull; when it fails the directory is moved
\* to <dest>.bak-<time> and a clone follows
CloneRepoPull ==
  /\ Checked /\ pc = "clone_repo" /\ IsDir(fs, repo_path)
  /\ \E ok \in BOOLEAN, t \in TimeReads :
       /\ ~ok => faults < MaxFaults
       /\ faults' = IF ok THEN faults ELSE faults + 1
       /\ IF ok /\ IsDir(fs, Append(repo_path, ".git"))
          THEN /\ Goto("setup_downloads")
               /\ UNCHANGED <<fs, clock>>
          ELSE LET backup_name == WithSuffix(repo_path, ".bak-" \o ToString(t))
               IN /\ clock' = t
                  /\ IF MoveOk(fs, repo_path, backup_name)
                     THEN /\ fs' = ShutilMove(fs, repo_path, backup_name)
                          /\ Goto("git_clone")
                     ELSE /\ Raise
                          /\ UNCHANGED fs
  /\ UNCHANGED <<variant, remote, root, favorite_apps, i, ts, session, fs0, backups, clobbered, installed, skipped>>
  /\ UNCHANGED pkgVars

\* clone_repo, git clone: into a path that does not exist, and the network may fail
CloneRepoClone ==
  /\ Checked
  /\ \/ pc = "clone_repo" /\ ~IsDir(fs, repo_path)
     \/ pc = "git_clone"
  /\ \E ok \in BOOLEAN :
       /\ ~ok => faults < MaxFaults
       /\ faults' = IF ok THEN faults ELSE faults + 1
       /\ IF ok /\ ~Exists(fs, repo_path)
          THEN /\ fs' = Put(fs, repo_path, ClonedTree(remote))
               /\ Goto("setup_downloads")
          ELSE /\ Raise
               /\ UNCHANGED fs
  /\ UNCHANGED <<variant, remote, root, favorite_apps, i, ts, clock, session, fs0, backups, clobbered, installed, skipped>>
  /\ UNCHANGED pkgVars

\* setup_downloads: safe_makedirs(<repo>/downloads)
SetupDownloads ==
  /\ Checked /\ pc = "setup_downloads"
  /\ IF CanMakedirs(fs, downloads_dir)
     THEN /\ fs' = Makedirs(fs, downloads_dir)
          /\ Goto("grub_cfg_backup")
     ELSE /\ Raise
          /\ UNCHANGED fs
  /\ UNCHANGED <<variant, remote, root, favorite_apps, i, ts, clock, session, faults, fs0, backups,
                 clobbered, installed, skipped>>
  /\ UNCHANGED pkgVars

\* backup_and_copy_grub: grub.cfg is moved to a unique <path>.b name
GrubCfgBackup ==
  /\ Checked /\ pc = "grub_cfg_backup"
  /\ IF Exists(fs, grub_cfg_path)
     THEN \E t \in TimeReads :
            /\ clock' = IF Exists(fs, WithSuffix(grub_cfg_path, ".b")) THEN t ELSE clock
            /\ BackupMove(grub_cfg_path,
                          make_unique_path(fs, WithSuffix(grub_cfg_path, ".b"), t),
                          "grub_cfg_copy")
     ELSE /\ Goto("grub_cfg_copy")
          /\ UNCHANGED <<fs, backups, faults, clock>>
  /\ UNCHANGED <<variant, remote, root, favorite_apps, i, ts, session, fs0, clobbered, installed, skipped>>
  /\ UNCHANGED pkgVars

\* backup_and_copy_grub: grub.cfg of the working copy is copied to /boot/grub/, and
\* the two theme backup directories are made
GrubCfgCopy ==
  /\ Checked /\ pc = "grub_cfg_copy"
  /\ LET src_grubcfg == Append(repo_path, GRUB_CFG_SRC)
         made == Makedirs(fs, BootGrub)
     IN IF ~Exists(fs, src_grubcfg)
        THEN /\ Raise
             /\ UNCHANGED <<fs, clobbered, installed>>
        ELSE IF CopyOk(made, src_grubcfg, BootGrub)
             THEN /\ fs' = Makedirs(Makedirs(ShutilCopy(made, src_grubcfg, BootGrub),
                                             Append(BootThemes, "backup")),
                                    Append(UsrThemes, "backup"))
                  /\ clobbered' = clobbered \cup
                       (IF Exists(made, grub_cfg_path) THEN {grub_cfg_path} ELSE {})
                  /\ installed' = installed \cup {grub_cfg_path}
                  /\ Goto("kali_boot_backup")
             ELSE /\ fs' = made
                  /\ Raise
                  /\ UNCHANGED <<clobbered, installed>>
  /\ UNCHANGED <<variant, remote, root, favorite_apps, i, ts, clock, session, faults, fs0, backups, skipped>>
  /\ UNCHANGED pkgVars

\* backup_and_copy_grub: an existing theme directory is moved to backup/kali.b
KaliBackup(at, themes, next) ==
  /\ Checked /\ pc = at
  /\ IF IsDir(fs, Append(themes, "kali"))
     THEN \E t \in TimeReads :
            /\ clock' = IF Exists(fs, themes \o <<"backup", "kali.b">>) THEN t ELSE clock
            /\ BackupMove(Append(themes, "kali"),
                          make_unique_path(fs, themes \o <<"backup", "kali.b">>, t),
                          next)
     ELSE /\ Goto(next)
          /\ UNCHANGED <<fs, backups, faults, clock>>
  /\ UNCHANGED <<variant, remote, root, favorite_apps, i, ts, session, fs0, clobbered, installed, skipped>>
  /\ UNCHANGED pkgVars

KaliBootBackup == KaliBackup("kali_boot_backup", BootThemes, "kali_boot_copy")
KaliUsrBackup == KaliBackup("kali_usr_backup", UsrThemes, "kali_usr_copy")

\* backup_and_copy_grub: the kali directory of the working copy is copied to
\* /boot/grub/themes/kali
KaliBootCopy ==
  /\ Checked /\ pc = "kali_boot_copy"
  /\ LET repo_kali == Append(repo_path, KALI_THEME_SRC)
     IN IF ~IsDir(fs, repo_kali)
        THEN /\ Raise
             /\ UNCHANGED <<fs, clobbered, installed>>
        ELSE IF CanMakedirs(fs, BootThemes)
             THEN CopyTree(Makedirs(fs, BootThemes), repo_kali, boot_kali, TRUE,
                           boot_kali, "kali_usr_backup")
             ELSE /\ Raise
                  /\ UNCHANGED <<fs, clobbered, installed>>
  /\ UNCHANGED <<variant, remote, root, favorite_apps, i, ts, clock, session, faults, fs0, backups, skipped>>
  /\ UNCHANGED pkgVars

\* backup_and_copy_grub: /boot/grub/themes/kali is copied to /usr/share/grub/themes/kali
KaliUsrCopy ==
  /\ Checked /\ pc = "kali_usr_copy"
  /\ IF CanMakedirs(fs, UsrThemes)
     THEN CopyTree(Makedirs(fs, UsrThemes), boot_kali, usr_kali, TRUE,
                   usr_kali, "wallpaper_prepare")
     ELSE /\ Raise
          /\ UNCHANGED <<fs, clobbered, installed>>
  /\ UNCHANGED <<variant, remote, root, favorite_apps, i, ts, clock, session, faults, fs0, backups, skipped>>
  /\ UNCHANGED pkgVars

\* backup_and_copy_wallpapers: the wallpaper directory must be in the working copy;
\* the backup directory is made
WallpaperPrepare ==
  /\ Checked /\ pc = "wallpaper_prepare"
  /\ IF IsDir(fs, wallpaper_repo_path) /\ CanMakedirs(fs, backup_dir)
     THEN /\ fs' = Makedirs(fs, backup_dir)
          /\ Goto("wallpaper_backup")
     ELSE /\ Raise
          /\ UNCHANGED fs
  /\ i' = 1
  /\ UNCHANGED <<variant, remote, root, favorite_apps, ts, clock, session, faults, fs0, backups,
                 clobbered, installed, skipped>>
  /\ UNCHANGED pkgVars

\* backup_and_copy_wallpapers, first loop: WALLPAPER_FILES_TO_BACKUP[i] is moved to
\* a unique name in the backup directory when it exists
WallpaperBackup ==
  /\ Checked /\ pc = "wallpaper_backup"
  /\ LET f == WALLPAPER_FILES_TO_BACKUP[i]
         target_file == Append(target_dir, f)
         base == Append(backup_dir, f \o ".b")
         next == IF i = Len(WALLPAPER_FILES_TO_BACKUP) THEN "wallpaper_copy"
                 ELSE "wallpaper_backup"
     IN IF Exists(fs, target_file)
        THEN \E t \in TimeReads :
               /\ clock' = IF Exists(fs, base) THEN t ELSE clock
               /\ BackupMove(target_file, make_unique_path(fs, base, t), next)
        ELSE /\ Goto(next)
             /\ UNCHANGED <<fs, backups, faults, clock>>
  /\ i' = IF i = Len(WALLPAPER_FILES_TO_BACKUP) THEN 1 ELSE i + 1
  /\ UNCHANGED <<variant, remote, root, favorite_apps, ts, session, fs0, clobbered, installed, skipped>>
  /\ UNCHANGED pkgVars

\* backup_and_copy_wallpapers, second loop: WALLPAPER_FILES[i] is copied to its
\* destination; a missing source raises
WallpaperCopy ==
  /\ Checked /\ pc = "wallpaper_copy"
  /\ LET src_file == Append(wallpaper_repo_path, WALLPAPER_FILES[i][1])
         dest == Append(target_dir, WALLPAPER_FILES[i][2])
         next == IF i = Len(WALLPAPER_FILES) THEN "desktop_settings" ELSE "wallpaper_copy"
     IN IF ~Exists(fs, src_file)
        THEN /\ Raise
             /\ UNCHANGED <<fs, clobbered, installed>>
        ELSE CopyFile(Makedirs(fs, target_dir), src_file, dest, dest, next)
  /\ i' = IF i = Len(WALLPAPER_FILES) THEN 1 ELSE i + 1
  /\ UNCHANGED <<variant, remote, root, favorite_apps, ts, clock, session, faults, fs0, backups, skipped>>
  /\ UNCHANGED pkgVars

\* ------------------------------------------------------------- startup3.py
\* module level: ensure_dir(downloads_dir), which makes the working copy's directory
\* too, then the clone-or-pull decision on os.path.exists(repo_path)
EnsureDownloadsAndFetch ==
  /\ variant = "startup3" /\ pc = "ensure_downloads"
  /\ \E ok \in BOOLEAN :
       /\ ~ok => faults < MaxFaults
       /\ faults' = IF ok THEN faults ELSE faults + 1
       /\ IF ~CanMakedirs(fs, downloads_dir)
          THEN /\ Raise
               /\ UNCHANGED fs
          ELSE LET made == Makedirs(fs, downloads_dir)
               IN IF ~Exists(made, repo_path)
                  THEN \* git clone
                       IF ok THEN /\ fs' = Put(made, repo_path, ClonedTree(remote))
                                  /\ Goto("s3_grub_cfg_backup")
                       ELSE /\ fs' = made
                            /\ Raise
                  ELSE \* git -C repo_path pull
                       /\ fs' = made
                       /\ IF ok /\ IsDir(made, Append(repo_path, ".git"))
                          THEN Goto("s3_grub_cfg_backup")
                          ELSE Raise
  /\ UNCHANGED <<variant, remote, root, favorite_apps, i, ts, clock, session, fs0, backups,
                 clobbered, installed, skipped>>
  /\ UNCHANGED pkgVars

\* backup_and_copy_grub: timestamp = int(time.time()); grub.cfg is moved to
\* grub.cfg.b.<timestamp>
S3GrubCfgBackup ==
  /\ variant = "startup3" /\ pc = "s3_grub_cfg_backup"
  /\ \E t \in TimeReads :
       /\ clock' = t
       /\ ts' = t
       /\ IF Exists(fs, grub_cfg_path)
          THEN IF root
               THEN BackupMove(grub_cfg_path,
                               WithSuffix(grub_cfg_path, ".b." \o ToString(t)),
                               "s3_grub_cfg_copy")
               ELSE \* PermissionError: /boot/grub is not writable
                    /\ Raise
                    /\ UNCHANGED <<fs, backups, faults>>
          ELSE /\ Goto("s3_grub_cfg_copy")
               /\ UNCHANGED <<fs, backups, faults>>
  /\ i' = 1
  /\ UNCHANGED <<variant, remote, root, favorite_apps, session, fs0, clobbered, installed, skipped>>
  /\ UNCHANGED pkgVars

\* backup_and_copy_grub: shutil.copy(grub_cfg_src, grub_cfg_dst)
S3GrubCfgCopy ==
  /\ variant = "startup3" /\ pc = "s3_grub_cfg_copy"
  /\ IF root
     THEN CopyFile(fs, Append(repo_path, "grub.cfg"), grub_cfg_path, grub_cfg_path,
                   "s3_theme_backup")
     ELSE \* PermissionError, or no /boot/grub to write to
          /\ Raise
          /\ UNCHANGED <<fs, clobbered, installed>>
  /\ UNCHANGED <<variant, remote, root, favorite_apps, i, ts, clock, session, faults, fs0, backups, skipped>>
  /\ UNCHANGED pkgVars

\* the i-th theme_dir of the loop, and the source of its kali directory
S3ThemeDir == IF i = 1 THEN BootThemes ELSE UsrThemes
S3SrcKali == IF i = 1 THEN Append(repo_path, "kali") ELSE boot_kali

\* backup_and_copy_grub, theme loop: ensure_dir(theme_dir/backup); an existing kali
\* is moved to backup/kali.b.<timestamp>
S3ThemeBackup ==
  /\ variant = "startup3" /\ pc = "s3_theme_backup"
  /\ LET dst_kali == Append(S3ThemeDir, "kali")
         backup_kali == S3ThemeDir \o <<"backup", "kali.b." \o ToString(ts)>>
     IN IF ~CanMakedirs(fs, Append(S3ThemeDir, "backup"))
        THEN /\ Raise
             /\ UNCHANGED <<fs, backups, faults>>
        ELSE LET made == Makedirs(fs, Append(S3ThemeDir, "backup"))
             IN IF Exists(made, dst_kali)
                THEN BackupMoveIn(made, dst_kali, backup_kali, "s3_theme_copy")
                ELSE /\ fs' = made
                     /\ Goto("s3_theme_copy")
                     /\ UNCHANGED <<backups, faults>>
  /\ UNCHANGED <<variant, remote, root, favorite_apps, i, ts, clock, session, fs0, clobbered, installed, skipped>>
  /\ UNCHANGED pkgVars

\* backup_and_copy_grub, theme loop: shutil.copytree(src_kali, dst_kali)
S3ThemeCopy ==
  /\ variant = "startup3" /\ pc = "s3_theme_copy"
  /\ CopyTree(fs, S3SrcKali, Append(S3ThemeDir, "kali"), FALSE, Append(S3ThemeDir, "kali"),
              IF i = 2 THEN "s3_wallpaper_prepare" ELSE "s3_theme_backup")
  /\ i' = IF i = 2 THEN 1 ELSE i + 1
  /\ UNCHANGED <<variant, remote, root, favorite_apps, ts, clock, session, faults, fs0, backups, skipped>>
  /\ UNCHANGED pkgVars

\* backup_and_copy_wallpapers: ensure_dir(backup_dir); timestamp = int(time.time())
S3WallpaperPrepare ==
  /\ variant = "startup3" /\ pc = "s3_wallpaper_prepare"
  /\ \E t \in TimeReads :
       /\ clock' = t
       /\ ts' = t
  /\ IF CanMakedirs(fs, backup_dir)
     THEN /\ fs' = Makedirs(fs, backup_dir)
          /\ Goto("s3_wallpaper_backup")
     ELSE /\ Raise
          /\ UNCHANGED fs
  /\ i' = 1
  /\ UNCHANGED <<variant, remote, root, favorite_apps, session, faults, fs0, backups, clobbered, installed, skipped>>
  /\ UNCHANGED pkgVars

\* backup_and_copy_wallpapers, loop body, first half: the i-th original is moved to
\* backup/<name>.b.<timestamp> when it exists
S3WallpaperBackup ==
  /\ variant = "startup3" /\ pc = "s3_wallpaper_backup"
  /\ LET orig_path == Append(target_dir, wallpaper_map[i][1])
         backup_path == Append(backup_dir, wallpaper_map[i][1] \o ".b." \o ToString(ts))
     IN IF Exists(fs, orig_path)
        THEN BackupMove(orig_path, backup_path, "s3_wallpaper_copy")
        ELSE /\ Goto("s3_wallpaper_copy")
             /\ UNCHANGED <<fs, backups, faults>>
  /\ UNCHANGED <<variant, remote, root, favorite_apps, i, ts, clock, session, fs0, clobbered, installed, skipped>>
  /\ UNCHANGED pkgVars

\* backup_and_copy_wallpapers, loop body, second half: the new file is copied when the
\* working copy has it; otherwise a warning is logged and the loop goes on
S3WallpaperCopy ==
  /\ variant = "startup3" /\ pc = "s3_wallpaper_copy"
  /\ LET orig_path == Append(target_dir, wallpaper_map[i][1])
         src_path == Append(wallpaper_repo_path, wallpaper_map[i][2])
         next == IF i = Len(wallpaper_map) THEN "desktop_settings" ELSE "s3_wallpaper_backup"
     IN IF Exists(fs, src_path)
        THEN /\ CopyFile(fs, src_path, orig_path, orig_path, next)
             /\ UNCHANGED skipped
        ELSE /\ skipped' = skipped \cup {orig_path}
             /\ Goto(next)
             /\ UNCHANGED <<fs, clobbered, installed>>
  /\ i' = IF i = Len(wallpaper_map) THEN 1 ELSE i + 1
  /\ UNCHANGED <<variant, remote, root, favorite_apps, ts, clock, session, faults, fs0, backups>>
  /\ UNCHANGED pkgVars

Startup3Steps ==
  \/ EnsureDownloadsAndFetch \/ S3GrubCfgBackup \/ S3GrubCfgCopy
  \/ S3ThemeBackup \/ S3ThemeCopy
  \/ S3WallpaperPrepare \/ S3WallpaperBackup \/ S3WallpaperCopy

\* --------------------------------------------------------------- python.py
\* main: without root the script re-executes itself under sudo
\* (os.execvp("sudo", ...)) and goes on as root, or ends with sudo's refusal
PyRoot ==
  /\ variant = "python" /\ pc = "py_root"
  /\ IF root
     THEN /\ Goto("py_clone")
          /\ UNCHANGED <<root, faults>>
     ELSE \E ok \in BOOLEAN :
            /\ ~ok => faults < MaxFaults
            /\ faults' = IF ok THEN faults ELSE faults + 1
            /\ IF ok THEN /\ root' = TRUE
                          /\ Goto("py_clone")
               ELSE /\ Abort(1)
                    /\ failed' = failed \cup {pc}
                    /\ UNCHANGED root
  /\ UNCHANGED <<fs, variant, remote, favorite_apps, i, ts, clock, session, fs0, backups,
                 clobbered, installed, skipped>>
  /\ UNCHANGED pkgVars

\* main: run("git clone ..."); run() catches the failing command and returns None
PyClone ==
  /\ variant = "python" /\ pc = "py_clone"
  /\ \E ok \in BOOLEAN :
       /\ ~ok => faults < MaxFaults
       /\ faults' = IF ok THEN faults ELSE faults + 1
       /\ IF ok /\ ~Exists(fs, repo_path)
          THEN /\ fs' = Put(fs, repo_path, ClonedTree(remote))
               /\ UNCHANGED failed
          ELSE /\ failed' = failed \cup {pc}
               /\ UNCHANGED fs
  /\ pc' = "py_chdir"
  /\ UNCHANGED <<variant, remote, root, favorite_apps, i, ts, clock, session, status, exitCode, fs0, backups,
                 clobbered, installed, skipped>>
  /\ UNCHANGED pkgVars

\* main: os.chdir("startup")
PyChdir ==
  /\ variant = "python" /\ pc = "py_chdir"
  /\ IF IsDir(fs, repo_path) THEN Goto("py_kali_boot_backup") ELSE Raise
  /\ UNCHANGED <<fs, variant, remote, root, favorite_apps, i, ts, clock, session, faults, fs0, backups,
                 clobbered, installed, skipped>>
  /\ UNCHANGED pkgVars

\* a backup_file that leaves an empty file at dest when src is absent
PyBackupFileTouches(n, src, dest, next) ==
  IF Exists(n, src)
  THEN BackupMoveIn(n, src, dest, next)
  ELSE /\ fs' = Put(n, dest, File(""))
       /\ Goto(next)
       /\ UNCHANGED <<backups, faults>>
\* backup_file(src, dest) behind `if Path(src).exists()`, in tree n
PyBackupFile(n, src, dest, next) ==
  IF Exists(n, src)
  THEN BackupMoveIn(n, src, dest, next)
  ELSE /\ fs' = n
       /\ Goto(next)
       /\ UNCHANGED <<backups, faults>>

\* setup_grub: the two ensure_dir calls, then the backup of /boot/grub/themes/kali to
\* the fixed name backup/kali.b
PyKaliBootBackup ==
  /\ variant = "python" /\ pc = "py_kali_boot_backup"
  /\ IF CanMakedirs(fs, Append(BootThemes, "backup")) /\ CanMakedirs(fs, Append(UsrThemes, "backup"))
     THEN PyBackupFile(Makedirs(Makedirs(fs, Append(BootThemes, "backup")),
                                Append(UsrThemes, "backup")),
                       boot_kali, BootThemes \o <<"backup", "kali.b">>, "py_kali_boot_copy")
     ELSE /\ Raise
          /\ UNCHANGED <<fs, backups, faults>>
  /\ UNCHANGED <<variant, remote, root, favorite_apps, i, ts, clock, session, fs0, clobbered, installed, skipped>>
  /\ UNCHANGED pkgVars

\* setup_grub: copy_file("kali", "/boot/grub/themes/")
PyKaliBootCopy ==
  /\ variant = "python" /\ pc = "py_kali_boot_copy"
  /\ CopyFileOrTree(fs, Append(repo_path, "kali"), BootThemes, boot_kali, "py_kali_usr_backup")
  /\ UNCHANGED <<variant, remote, root, favorite_apps, i, ts, clock, session, faults, fs0, backups, skipped>>
  /\ UNCHANGED pkgVars

\* setup_grub: the backup of /usr/share/grub/themes/kali to the fixed name backup/kali.b
PyKaliUsrBackup ==
  /\ variant = "python" /\ pc = "py_kali_usr_backup"
  /\ PyBackupFile(fs, usr_kali, UsrThemes \o <<"backup", "kali.b">>, "py_kali_usr_copy")
  /\ UNCHANGED <<variant, remote, root, favorite_apps, i, ts, clock, session, fs0, clobbered, installed, skipped>>
  /\ UNCHANGED pkgVars

\* setup_grub: copy_file("/boot/grub/themes/kali", "/usr/share/grub/themes/")
PyKaliUsrCopy ==
  /\ variant = "python" /\ pc = "py_kali_usr_copy"
  /\ CopyFileOrTree(fs, boot_kali, UsrThemes, usr_kali, "py_grub_cfg_backup")
  /\ UNCHANGED <<variant, remote, root, favorite_apps, i, ts, clock, session, faults, fs0, backups, skipped>>
  /\ UNCHANGED pkgVars

\* setup_grub: backup_file("/boot/grub/grub.cfg", "/boot/grub/grub.cfg.b")
PyGrubCfgBackup ==
  /\ variant = "python" /\ pc = "py_grub_cfg_backup"
  /\ PyBackupFile(fs, grub_cfg_path, WithSuffix(grub_cfg_path, ".b"), "py_grub_cfg_copy")
  /\ UNCHANGED <<variant, remote, root, favorite_apps, i, ts, clock, session, fs0, clobbered, installed, skipped>>
  /\ UNCHANGED pkgVars

\* setup_grub: copy_file("grub.cfg", "/boot/grub/")
PyGrubCfgCopy ==
  /\ variant = "python" /\ pc = "py_grub_cfg_copy"
  /\ CopyFileOrTree(fs, Append(repo_path, "grub.cfg"), BootGrub, grub_cfg_path,
                    "py_wallpaper_backup")
  /\ i' = 1
  /\ UNCHANGED <<variant, remote, root, favorite_apps, ts, clock, session, faults, fs0, backups, skipped>>
  /\ UNCHANGED pkgVars

\* setup_wallpapers: ensure_dir(backup), then the i-th backup_file to the fixed name
\* backup/<name>.b
PyWallpaperBackup ==
  /\ variant = "python" /\ pc = "py_wallpaper_backup"
  /\ LET wp == WALLPAPER_FILES_TO_BACKUP[i]
         next == IF i = Len(WALLPAPER_FILES_TO_BACKUP) THEN "py_wallpaper_copy"
                 ELSE "py_wallpaper_backup"
     IN IF CanMakedirs(fs, backup_dir)
        THEN PyBackupFile(Makedirs(fs, backup_dir), Append(target_dir, wp),
                          Append(backup_dir, wp \o ".b"), next)
        ELSE /\ Raise
             /\ UNCHANGED <<fs, backups, faults>>
  /\ i' = IF i = Len(WALLPAPER_FILES_TO_BACKUP) THEN 1 ELSE i + 1
  /\ UNCHANGED <<variant, remote, root, favorite_apps, ts, clock, session, fs0, clobbered, installed, skipped>>
  /\ UNCHANGED pkgVars

\* setup_wallpapers: the i-th copy_file, its source relative to the working copy's top
PyWallpaperCopy ==
  /\ variant = "python" /\ pc = "py_wallpaper_copy"
  /\ LET dest == Append(target_dir, WALLPAPER_FILES[i][2])
     IN CopyFileOrTree(fs, Append(repo_path, WALLPAPER_FILES[i][1]), dest, dest,
                       IF i = Len(WALLPAPER_FILES) THEN "desktop_settings"
                       ELSE "py_wallpaper_copy")
  /\ i' = IF i = Len(WALLPAPER_FILES) THEN 1 ELSE i + 1
  /\ UNCHANGED <<variant, remote, root, favorite_apps, ts, clock, session, faults, fs0, backups, skipped>>
  /\ UNCHANGED pkgVars

PythonSteps ==
  \/ PyRoot \/ PyClone \/ PyChdir
  \/ PyKaliBootBackup \/ PyKaliBootCopy \/ PyKaliUsrBackup \/ PyKaliUsrCopy
  \/ PyGrubCfgBackup \/ PyGrubCfgCopy \/ PyWallpaperBackup \/ PyWallpaperCopy

\* ------------------------------------------------------------ every script
\* apply_gnome_tweaks and configure_dash_to_dock: gsettings commands; a failing one
\* ends startup.py, startup2.py and startup3.py, python.py's run() swallows it
DesktopSettings ==
  /\ pc = "desktop_settings"
  /\ \E ok \in BOOLEAN :
       /\ ~ok => faults < MaxFaults
       /\ faults' = IF ok THEN faults ELSE faults + 1
       /\ IF ok \/ variant = "python" THEN Goto("packages") ELSE Raise
  /\ UNCHANGED <<fs, variant, remote, root, favorite_apps, i, ts, clock, session, fs0, backups,
                 clobbered, installed, skipped>>
  /\ UNCHANGED pkgVars

\* the script is started again on the same machine, as root or not: after the
\* previous run ended, or after the operator interrupted it when it entered the
\* package phase
Rerun ==
  /\ status # "Running" \/ pc = "packages"
  /\ session < MaxSessions
  /\ session' = session + 1
  /\ pc' = StartPc(variant)
  /\ status' = "Running"
  /\ exitCode' = -1
  /\ i' = 1
  /\ ts' = 0
  /\ fs0' = fs
  /\ clobbered' = {}
  /\ installed' = {}
  /\ skipped' = {}
  /\ failed' = {}
  /\ pkg' = "none"
  /\ called' = 0
  /\ cmdIx' = 1
  /\ pkgs' = NoPackages
  /\ root' \in BOOLEAN
  /\ UNCHANGED <<fs, variant, remote, favorite_apps, clock, faults, backups, fetch>>

StartupSteps ==
  \/ RequireRoot \/ CloneRepoPull \/ CloneRepoClone \/ SetupDownloads
  \/ GrubCfgBackup \/ GrubCfgCopy \/ KaliBootBackup \/ KaliBootCopy
  \/ KaliUsrBackup \/ KaliUsrCopy
  \/ WallpaperPrepare \/ WallpaperBackup \/ WallpaperCopy

\* clone, resources and desktop settings
ResourceSteps == StartupSteps \/ Startup3Steps \/ PythonSteps \/ DesktopSettings

\* the resource phase, over several runs on the same machine
Next == ResourceSteps \/ Rerun

\* startup.py's clone_repo, backup_and_copy_grub and backup_and_copy_wallpapers are
\* startup2.py's statement for statement (the log messages differ), so the repeated
\* runs take startup2.py for the two; SpecSession below runs each of the four
InitResources == Init /\ variant # "startup"

Spec == InitResources /\ [][Next]_vars

\* ------------------------------------------------------------- the packages
\* order of the install_* calls in main
PackageOrder(v) ==
  IF v = "python" THEN <<"brave", "telegram", "protonvpn", "rustscan", "vscode">>
  ELSE <<"telegram", "protonvpn", "rustscan", "vscode", "brave">>

\* the bytes the publisher released for package p, and bytes that differ from them
Artifact(p) == "artifact:" \o p
Tampered(p) == "tampered:" \o p
\* sha256_of_file(path): the digest is a function of the bytes, and of nothing else
Sha256(data) == "sha256(" \o data \o ")"
sha256_of_file(n, path) == Sha256(Lookup(n, path).data)
PROTONVPN_SHA256 == Sha256(Artifact("protonvpn"))
\* the scripts that hold an expected digest for the ProtonVPN package
HasDigest(v) == v \in {"startup", "startup2"}

\* where a download is written; "" where the script pipes it into a shell instead
telegram_url_txt == Append(tmp_dir, "telegram_url.txt")
TargetName(v, p) ==
  IF v \in {"startup", "startup2"}
  THEN CASE p = "telegram" -> "tsetup.6.1.3.tar.xz"
         [] p = "protonvpn" -> "protonvpn-stable-release_1.0.8_all.deb"
         [] p = "rustscan" -> "rustscan_2.2.3_amd64.deb"
         [] p = "vscode" -> "code.deb"
         [] OTHER -> "brave-install.sh"
  ELSE CASE p = "telegram" -> "tsetup_latest.tar.xz"
         [] p = "protonvpn" -> "protonvpn-release.deb"
         [] p = "rustscan" -> "rustscan.deb"
         [] p = "vscode" -> "code.deb"
         [] OTHER -> ""
Target(v, p) == IF v = "python" THEN Append(tmp_dir, TargetName(v, p))
                ELSE Append(downloads_dir, TargetName(v, p))

\* number of attempts a download makes: download_with_retries(url, target, retries=3)
\* in startup2.py, one urlretrieve in startup.py, one wget in startup3.py and python.py
retries == 3
Retries(v) == IF v = "startup2" THEN retries ELSE 1

\* a delay that grows shorter with each attempt
BackoffShrinking(attempt) == 10 - attempt
\* time.sleep(1 + attempt): the seconds slept after failed attempt number `attempt`
Backoff(attempt) == 1 + attempt

\* download_with_retries when the first n attempts fail: the attempts made, the
\* seconds slept after each failed attempt, and whether the file was delivered
RECURSIVE Attempts(_, _, _, _)
Attempts(budget, n, attempt, sleeps) ==
  IF attempt > budget THEN [ok |-> FALSE, attempts |-> attempt - 1, sleeps |-> sleeps]
  ELSE IF attempt > n THEN [ok |-> TRUE, attempts |-> attempt, sleeps |-> sleeps]
  ELSE Attempts(budget, n, attempt + 1, Append(sleeps, Backoff(attempt)))
download_with_retries(budget, n) == Attempts(budget, n, 1, <<>>)

\* the steps of install_<p> in script v, in order
Phases(v, p) ==
  CASE p = "telegram" ->
         IF v = "startup3" THEN <<"download", "prepare", "command", "launch", "report">>
         ELSE IF v = "python" THEN <<"resolve", "download", "prepare", "command", "launch", "report">>
         ELSE <<"resolve", "download", "prepare", "command", "check_bin", "launch", "report">>
    [] p = "protonvpn" ->
         IF HasDigest(v) THEN <<"download", "verify", "command", "launch", "report">>
         ELSE <<"download", "command", "launch", "report">>
    [] p = "rustscan" -> <<"download", "command", "report">>
    [] p = "vscode" -> <<"download", "command", "launch", "report">>
    [] OTHER ->
         IF v = "python" THEN <<"command", "pin", "report", "launch">>
         ELSE IF v = "startup3" THEN <<"command", "pin", "report">>
         ELSE <<"download", "command", "pin", "report">>
\* the step after step ph; "packages" is main, between two install_* calls
After(v, p, ph) ==
  LET at == CHOOSE j \in 1..Len(Phases(v, p)) : Phases(v, p)[j] = ph
  IN IF at < Len(Phases(v, p)) THEN Phases(v, p)[at + 1] ELSE "packages"

\* one external command of an install_* function: after exit status zero the function
\* goes on at command `ok`, after a non-zero status at command `fail`; Raises stands
\* for an exception that leaves the function, and an index past the end for its end
Raises == 0
Cmd(name, role, ok, fail) == [name |-> name, role |-> role, ok |-> ok, fail |-> fail]
\* role "install" is the command that installs the package; "aux" any other command
TelegramCmds(v) ==
  IF v = "startup3" THEN << Cmd("tar -xf", "install", 2, Raises), Cmd("chmod +x", "aux", 3, Raises) >>
  ELSE IF v = "python" THEN << Cmd("tar -xf", "install", 2, 2), Cmd("chmod +x", "aux", 3, 3) >>
  ELSE << Cmd("tar -xf", "install", 2, Raises) >>
ProtonvpnCmds(v) ==
  IF v = "startup"
  THEN << Cmd("dpkg -i", "install", 2, Raises), Cmd("apt update", "aux", 3, Raises),
          Cmd("apt install proton-vpn-gnome-desktop", "install", 4, Raises),
          Cmd("apt install tray", "aux", 5, Raises) >>
  ELSE IF v = "startup2"
  THEN << Cmd("dpkg -i", "install", 2, Raises), Cmd("apt update", "aux", 3, Raises),
          Cmd("apt install proton-vpn-gnome-desktop", "install", 6, 4),
          Cmd("apt install protonvpn-gnome-desktop", "install", 6, 5),
          Cmd("apt install proton-vpn", "install", 6, 6),
          Cmd("apt install tray", "aux", 7, Raises) >>
  ELSE IF v = "startup3"
  THEN << Cmd("dpkg -i", "install", 2, Raises), Cmd("apt update", "aux", 3, Raises),
          Cmd("apt install protonvpn-gnome-desktop", "install", 4, Raises) >>
  ELSE << Cmd("dpkg -i", "install", 2, 2), Cmd("apt update", "aux", 3, 4),
          Cmd("apt install protonvpn-gnome-desktop", "install", 4, 4) >>
RustscanCmds(v) ==
  IF v = "startup3"
  THEN << Cmd("dpkg -i", "install", 3, 2), Cmd("apt-get install -f", "aux", 3, Raises),
          Cmd("ulimit -n", "aux", 4, Raises) >>
  ELSE IF v = "python"
  THEN << Cmd("dpkg -i", "install", 2, 2), Cmd("apt-get install -f", "aux", 3, 3),
          Cmd("ulimit -n", "aux", 4, 4) >>
  ELSE << Cmd("dpkg -i", "install", 2, Raises), Cmd("apt-get install -f", "aux", 3, Raises) >>
\* an install_vscode whose failing dpkg -i is not followed by the repair
VscodeCmdsNoRepair(v) ==
  IF v = "python"
  THEN << Cmd("dpkg -i", "install", 3, 3), Cmd("apt-get install -f", "aux", 3, 3),
          Cmd("rm -f", "aux", 4, 4) >>
  ELSE << Cmd("dpkg -i", "install", 3, Raises), Cmd("apt-get install -f", "aux", 3, Raises) >>
VscodeCmds(v) ==
  IF v = "python"
  THEN << Cmd("dpkg -i", "install", 3, 2), Cmd("apt-get install -f", "aux", 3, 3),
          Cmd("rm -f", "aux", 4, 4) >>
  ELSE << Cmd("dpkg -i", "install", 3, 2), Cmd("apt-get install -f", "aux", 3, Raises) >>
BraveCmds(v) ==
  IF v = "startup3" THEN << Cmd("curl | sh", "install", 2, Raises) >>
  ELSE IF v = "python" THEN << Cmd("curl | sh", "install", 2, 2) >>
  ELSE << Cmd("sh brave-install.sh", "install", 2, Raises) >>
Cmds(v, p) ==
  CASE p = "telegram" -> TelegramCmds(v)
    [] p = "protonvpn" -> ProtonvpnCmds(v)
    [] p = "rustscan" -> RustscanCmds(v)
    [] p = "vscode" -> VscodeCmds(v)
    [] OTHER -> BraveCmds(v)
InstallCmds(v, p) == {x.name : x \in {y \in Range(Cmds(v, p)) : y.role = "install"}}

\* how the script starts the application of package p
\*   "popen":     subprocess.Popen outside of any try
\*   "popen_fnf": Popen in try/except FileNotFoundError
\*   "popen_any": Popen in try/except Exception
\*   "nohup":     run("nohup ... &"), a background job of a shell: its status is zero
LaunchStyle(v, p) ==
  IF v = "startup" THEN (IF p = "telegram" THEN "popen" ELSE "popen_fnf")
  ELSE IF v = "startup2" THEN "popen_any"
  ELSE "nohup"
LaunchResults == {"ok", "missing", "denied"}

\* ------------------------------------------------- package steps: helpers
Rec == pkgs[pkg]
\* position of a package step, as recorded in `failed`
At == pkg \o ":" \o pc
InPackage(ph) == pkg \in Packages /\ pc = ph /\ status = "Running"
\* an external failure is taken from the budget
Fault(bad) == /\ bad => faults < MaxFaults
              /\ faults' = IF bad THEN faults + 1 ELSE faults
\* an exception leaves install_<pkg>, its record being r: main's handler ends the
\* script (startup.py, startup2.py), or nothing catches it (startup3.py, python.py)
PkgRaise(r) == /\ Abort(1)
               /\ failed' = failed \cup {At}
               /\ pkgs' = [pkgs EXCEPT ![pkg] = [r EXCEPT !.outcome = "Failed"]]
\* the step ends and install_<pkg> goes on at `next`; `nonzero` says a failure was passed over
PkgGoto(r, next, nonzero) ==
  /\ pc' = next
  /\ failed' = IF nonzero THEN failed \cup {At} ELSE failed
  /\ pkgs' = [pkgs EXCEPT ![pkg] = r]
  /\ UNCHANGED <<status, exitCode>>
\* a failing command: run_cmd and startup3.py's run raise, python.py's run returns None
PkgFail(r, next) == IF variant = "python" THEN PkgGoto(r, next, TRUE) ELSE PkgRaise(r)

\* main, between two install_* calls
NextPackage ==
  /\ pc = "packages" /\ status = "Running"
  /\ IF called < Len(PackageOrder(variant))
     THEN /\ pkg' = PackageOrder(variant)[called + 1]
          /\ called' = called + 1
          /\ pc' = Phases(variant, PackageOrder(variant)[called + 1])[1]
     ELSE /\ pkg' = "none"
          /\ called' = called
          /\ pc' = IF variant = "python" THEN "prompt" ELSE "cleanup"
  /\ cmdIx' = 1
  /\ UNCHANGED <<fs, faults, status, exitCode, failed, pkgs>>
  /\ UNCHANGED <<resVars, fetch>>

\* install_telegram: find the archive's URL on the download page
Resolve ==
  /\ InPackage("resolve")
  /\ \E ok \in BOOLEAN :
       /\ Fault(~ok)
       /\ IF variant = "python"
          THEN \* the pipeline's status is that of `head`: the file is written, maybe empty
               /\ fs' = Put(fs, telegram_url_txt, File(IF ok THEN "url:telegram" ELSE ""))
               /\ PkgGoto(Rec, After(variant, pkg, pc), FALSE)
          ELSE /\ fs' = fs
               /\ IF ok THEN PkgGoto(Rec, After(variant, pkg, pc), FALSE) ELSE PkgRaise(Rec)
  /\ UNCHANGED <<pkg, called, cmdIx>>
  /\ UNCHANGED <<resVars, fetch>>

\* the file wget's background job leaves in the working directory (see Download)
stray_download ==
  IF variant = "python" THEN Append(repo_path, "download?build=stable")
  ELSE <<"download?build=stable">>

\* the download of install_<pkg>: urlretrieve (startup.py), download_with_retries
\* (startup2.py), download_file (startup3.py), run("wget ...") (python.py).  Only the
\* ProtonVPN package has an expected digest, so only its bytes are told apart.
Download ==
  /\ InPackage("download")
  /\ LET t == Target(variant, pkg)
         next == After(variant, pkg, pc)
         wget == variant \in {"startup3", "python"}
     IN IF variant = "startup" /\ pkg = "rustscan"
        THEN \* RUSTSCAN_DEB_URL is not defined in startup.py: NameError
             /\ PkgRaise(Rec)
             /\ UNCHANGED <<fs, faults>>
        ELSE IF wget /\ pkg = "vscode"
        THEN \* the shell cuts the command at the & of the URL: wget runs in the
             \* background without -O, and "os=linux-deb-x64 -O <dest>" is no command
             /\ fs' = fs
             /\ PkgFail([Rec EXCEPT !.gets = @ + 1, !.job = "running"], next)
             /\ UNCHANGED faults
        ELSE IF variant = "python" /\ pkg = "telegram" /\ Lookup(fs, telegram_url_txt).data = ""
        THEN \* wget without a URL
             /\ PkgFail(Rec, next)
             /\ UNCHANGED <<fs, faults>>
        ELSE \E n \in 0..Retries(variant), served \in {Artifact(pkg), Tampered(pkg)} :
               LET r == download_with_retries(Retries(variant), n)
               IN /\ served # Artifact(pkg) => pkg = "protonvpn" /\ r.ok
                  /\ Fault(n > 0 \/ served # Artifact(pkg))
                  /\ IF r.ok
                     THEN /\ fs' = Put(fs, t, File(served))
                          /\ PkgGoto([Rec EXCEPT !.gets = @ + r.attempts, !.got = @ + 1,
                                                 !.bytes = served],
                                     next, FALSE)
                     ELSE \* wget -O creates the output file before it connects
                          /\ fs' = IF wget THEN Put(fs, t, File("")) ELSE fs
                          /\ PkgFail([Rec EXCEPT !.gets = @ + r.attempts], next)
  /\ UNCHANGED <<pkg, called, cmdIx>>
  /\ UNCHANGED <<resVars, fetch>>

\* the wget the shell left in the background ends, whatever the script is at by
\* then: it has written its file into the working directory, or the network failed
BackgroundDownloadEnds ==
  /\ \E p \in Packages, ok \in BOOLEAN :
       /\ pkgs[p].job = "running"
       /\ fs' = IF ok THEN Put(fs, stray_download, File(Artifact(p))) ELSE fs
       /\ pkgs' = [pkgs EXCEPT ![p].job = "ended"]
  /\ UNCHANGED <<pc, faults, status, exitCode, failed, pkg, called, cmdIx>>
  /\ UNCHANGED <<resVars, fetch>>

\* a check that records the comparison but goes on to the installation either way
VerifyLogsOnly ==
  /\ InPackage("verify")
  /\ PkgGoto([Rec EXCEPT !.digest = IF sha256_of_file(fs, Target(variant, pkg)) # PROTONVPN_SHA256
                                    THEN "mismatch" ELSE "ok"],
             After(variant, pkg, pc), FALSE)
  /\ UNCHANGED <<fs, faults, pkg, called, cmdIx>>
  /\ UNCHANGED <<resVars, fetch>>

\* install_protonvpn (startup.py, startup2.py): compare the file's SHA-256
Verify ==
  /\ InPackage("verify")
  /\ IF sha256_of_file(fs, Target(variant, pkg)) # PROTONVPN_SHA256
     THEN PkgRaise([Rec EXCEPT !.digest = "mismatch"])
     ELSE PkgGoto([Rec EXCEPT !.digest = "ok"], After(variant, pkg, pc), FALSE)
  /\ UNCHANGED <<fs, faults, pkg, called, cmdIx>>
  /\ UNCHANGED <<resVars, fetch>>

\* install_telegram: remove /opt/Telegram and create it again
Prepare ==
  /\ InPackage("prepare")
  /\ \E ok \in BOOLEAN :
       /\ Fault(~ok)
       /\ IF ok
          THEN /\ fs' = Put(Del(fs, opt_telegram), opt_telegram, EmptyDir)
               /\ PkgGoto(Rec, After(variant, pkg, pc), FALSE)
          ELSE /\ fs' = fs
               /\ PkgFail(Rec, After(variant, pkg, pc))
  /\ UNCHANGED <<pkg, called, cmdIx>>
  /\ UNCHANGED <<resVars, fetch>>

\* what command x needs in tree n to be able to exit with status zero
Delivered(n, path) == IsFile(n, path) /\ Lookup(n, path).data # ""
CanSucceed(n, v, p, x) ==
  IF x.name \in {"tar -xf", "dpkg -i", "sh brave-install.sh"} THEN Delivered(n, Target(v, p))
  ELSE IF x.name = "chmod +x" THEN Exists(n, tg_bin)
  ELSE TRUE
\* what command x leaves in tree n when its status is zero
CmdEffect(n, v, p, x) ==
  IF x.name = "tar -xf" THEN Put(n, tg_bin, File("bin:" \o Lookup(n, Target(v, p)).data))
  ELSE IF x.name = "rm -f" THEN Del(n, Target(v, p))
  ELSE n

\* the function goes on at command j, or ends its command phase, or raises
CmdNext(r, j, nonzero) ==
  IF j = Raises THEN PkgRaise(r) /\ cmdIx' = cmdIx
  ELSE IF j > Len(Cmds(variant, pkg))
  THEN PkgGoto(r, After(variant, pkg, pc), nonzero) /\ cmdIx' = 1
  ELSE PkgGoto(r, pc, nonzero) /\ cmdIx' = j

\* the command at hand runs in place of one that failed (the next package name, the
\* repair after a failed dpkg): what made the first fail is there for it too
InPlaceOfFailed ==
  \E y \in Range(Cmds(variant, pkg)) :
    y.fail = cmdIx /\ y.ok # cmdIx /\ y.name \in Rec.nonzero

\* one run_cmd / run of install_<pkg>
Command ==
  /\ InPackage("command")
  /\ LET x == Cmds(variant, pkg)[cmdIx]
         ran == [Rec EXCEPT !.ran = @ \cup {x.name}]
     IN IF x.name = "curl | sh"
        THEN \* the shell starts sh together with curl; the pipeline's status is sh's,
             \* and sh, given nothing to read when curl fails, exits with zero
             \E dl \in BOOLEAN, ok \in BOOLEAN :
               /\ ~dl => ok
               /\ Fault(~dl \/ ~ok)
               /\ fs' = fs
               /\ LET r == [ran EXCEPT !.gets = @ + 1, !.got = @ + (IF dl THEN 1 ELSE 0),
                                       !.nonzero = IF ok THEN @ ELSE @ \cup {x.name}]
                  IN CmdNext(r, IF ok THEN x.ok ELSE x.fail, ~ok)
        ELSE \E ok \in BOOLEAN :
               /\ ok => CanSucceed(fs, variant, pkg, x)
               /\ Fault(~ok /\ CanSucceed(fs, variant, pkg, x) /\ ~InPlaceOfFailed)
               /\ fs' = IF ok THEN CmdEffect(fs, variant, pkg, x) ELSE fs
               /\ LET r == [ran EXCEPT !.nonzero = IF ok THEN @ ELSE @ \cup {x.name}]
                  IN CmdNext(r, IF ok THEN x.ok ELSE x.fail, ~ok)
  /\ UNCHANGED <<pkg, called>>
  /\ UNCHANGED <<resVars, fetch>>

\* install_telegram (startup.py, startup2.py): the binary must exist after extraction
CheckBin ==
  /\ InPackage("check_bin")
  /\ IF Exists(fs, tg_bin) THEN PkgGoto(Rec, After(variant, pkg, pc), FALSE) ELSE PkgRaise(Rec)
  /\ UNCHANGED <<fs, faults, pkg, called, cmdIx>>
  /\ UNCHANGED <<resVars, fetch>>

\* the post-install launch
Launch ==
  /\ InPackage("launch")
  /\ \E res \in LaunchResults :
       LET r == [Rec EXCEPT !.launch = res]
           style == LaunchStyle(variant, pkg)
           caught == \/ res = "ok"
                     \/ style \in {"popen_any", "nohup"}
                     \/ style = "popen_fnf" /\ res = "missing"
       IN /\ Fault(res # "ok")
          /\ IF caught THEN PkgGoto(r, After(variant, pkg, pc), FALSE) ELSE PkgRaise(r)
  /\ UNCHANGED <<fs, pkg, called, cmdIx>>
  /\ UNCHANGED <<resVars, fetch>>

\* the text of a GVariant list of strings, as a sequence of tokens: "@as", "[", "]",
\* "," and, for a quoted string, the string itself; blanks carry no meaning and are
\* left out.  `gsettings get` prints an empty list with its type.
GListTokens == {"@as", "[", "]", ","}
RECURSIVE Joined(_)
Joined(l) == IF Len(l) <= 1 THEN l ELSE <<Head(l), ",">> \o Joined(Tail(l))
gsettings_get(l) == IF l = <<>> THEN <<"@as", "[", "]">> ELSE <<"[">> \o Joined(l) \o <<"]">>
\* `gsettings set` parses its argument: exit status 0 and the list it denotes, or
\* exit status 1
gsettings_set(text) ==
  LET Parsed(l) == [returncode |-> 0, value |-> l]
      Refused == [returncode |-> 1, value |-> <<>>]
      u == IF text # <<>> /\ Head(text) = "@as" THEN Tail(text) ELSE text
      b == SubSeq(u, 2, Len(u) - 1)
  IN IF Len(u) < 2 \/ u[1] # "[" \/ u[Len(u)] # "]" THEN Refused
     ELSE IF b = <<>> THEN Parsed(<<>>)
     ELSE IF /\ Len(b) % 2 = 1
             /\ \A k \in 1..Len(b) :
                  IF k % 2 = 1 THEN b[k] \notin GListTokens ELSE b[k] = ","
          THEN Parsed([k \in 1..((Len(b) + 1) \div 2) |-> b[2 * k - 1]])
          ELSE Refused
\* the first candidate under /usr/share/applications that is a file
desktop_file == "brave-browser.desktop"
\* favs.rstrip("]") (startup3.py)
RECURSIVE RStrip(_)
RStrip(favs) == IF favs # <<>> /\ favs[Len(favs)] = "]" THEN RStrip(SubSeq(favs, 1, Len(favs) - 1))
                ELSE favs
\* the text install_brave builds from the text `favs` that gsettings printed
new_favs(v, favs) ==
  LET cut == SubSeq(favs, 1, Len(favs) - 1)
      tail == <<",", desktop_file, "]">>
  IN IF v = "python" THEN cut \o tail
     ELSE IF v = "startup3" THEN RStrip(favs) \o tail
     ELSE IF favs # <<>> /\ favs[Len(favs)] = "]" THEN cut \o tail
     ELSE favs \o <<"[", desktop_file, "]">>

\* install_brave: when the installer left a .desktop file, read and write the favorites
DesktopFile == Rec.got > 0 /\ Rec.nonzero = {}
Pin ==
  /\ InPackage("pin")
  /\ \E ok \in BOOLEAN :
       /\ ~ok => DesktopFile
       /\ Fault(~ok)
       /\ LET favs == gsettings_get(favorite_apps)
              new == gsettings_set(new_favs(variant, favs))
          IN IF ~ok
             THEN PkgFail(Rec, After(variant, pkg, pc)) /\ UNCHANGED favorite_apps
             ELSE IF ~DesktopFile \/ \E k \in DOMAIN favs : favs[k] = desktop_file
             THEN PkgGoto(Rec, After(variant, pkg, pc), FALSE) /\ UNCHANGED favorite_apps
             ELSE IF new.returncode # 0
             THEN PkgFail(Rec, After(variant, pkg, pc)) /\ UNCHANGED favorite_apps
             ELSE PkgGoto(Rec, After(variant, pkg, pc), FALSE) /\ favorite_apps' = new.value
  /\ UNCHANGED <<fs, pkg, called, cmdIx>>
  /\ UNCHANGED <<variant, remote, root, i, ts, clock, session, fs0, backups, clobbered,
                 installed, skipped, fetch>>

\* install_<pkg> logs or prints its success line and returns
Report ==
  /\ InPackage("report")
  /\ PkgGoto([Rec EXCEPT !.outcome = "Success"], After(variant, pkg, pc), FALSE)
  /\ UNCHANGED <<fs, faults, pkg, called, cmdIx>>
  /\ UNCHANGED <<resVars, fetch>>

\* a cleanup_downloads that lets the exception of a removal, or of a missing
\* directory, out
CleanupRaises ==
  /\ pc = "cleanup" /\ status = "Running"
  /\ LET entries == IF IsDir(fs, downloads_dir) THEN DOMAIN Lookup(fs, downloads_dir).kids ELSE {}
     IN \E kept \in SUBSET entries :
          /\ Cardinality(kept) <= 1
          /\ Fault(kept # {})
          /\ fs' = IF variant = "startup3" /\ kept = {} THEN Del(fs, downloads_dir)
                   ELSE IF ~IsDir(fs, downloads_dir) THEN fs
                   ELSE Put(fs, downloads_dir,
                            Dir([e \in kept |-> Lookup(fs, downloads_dir).kids[e]]))
          /\ IF kept = {} /\ IsDir(fs, downloads_dir)
             THEN pc' = "prompt" /\ UNCHANGED <<status, exitCode, failed>>
             ELSE Raise
  /\ UNCHANGED pkgVars
  /\ UNCHANGED <<resVars, fetch>>

\* cleanup_downloads (startup.py, startup2.py): every entry is removed, one that
\* cannot be removed is logged; shutil.rmtree(downloads_dir, ignore_errors=True)
\* (startup3.py)
Cleanup ==
  /\ pc = "cleanup" /\ status = "Running"
  /\ LET entries == IF IsDir(fs, downloads_dir) THEN DOMAIN Lookup(fs, downloads_dir).kids ELSE {}
     IN \E kept \in SUBSET entries :
          /\ Cardinality(kept) <= 1
          /\ Fault(kept # {})
          /\ fs' = IF variant = "startup3" /\ kept = {} THEN Del(fs, downloads_dir)
                   ELSE IF ~IsDir(fs, downloads_dir) THEN fs
                   ELSE Put(fs, downloads_dir,
                            Dir([e \in kept |-> Lookup(fs, downloads_dir).kids[e]]))
  /\ pc' = "prompt"
  /\ UNCHANGED <<status, exitCode, failed, pkgVars>>
  /\ UNCHANGED <<resVars, fetch>>

\* "Reboot now? (y/N)", and the end of the script
RebootPrompt ==
  /\ pc = "prompt" /\ status = "Running"
  /\ \E choice \in {"y", "n"}, ok \in BOOLEAN :
       /\ choice = "n" => ok
       /\ Fault(~ok)
       /\ IF ok \/ variant = "python"
          THEN /\ pc' = "exit"
               /\ status' = "Done"
               /\ exitCode' = 0
               /\ failed' = IF ok THEN failed ELSE failed \cup {"reboot"}
          ELSE /\ Abort(1)
               /\ failed' = failed \cup {"reboot"}
  /\ UNCHANGED <<fs, pkgVars>>
  /\ UNCHANGED <<resVars, fetch>>

PackageSteps ==
  \/ NextPackage \/ Resolve \/ Download \/ Verify \/ Prepare \/ Command
  \/ CheckBin \/ Launch \/ Pin \/ Report \/ Cleanup \/ RebootPrompt
  \/ BackgroundDownloadEnds

\* one run of a script, from its first line to its exit
NextSession == ResourceSteps \/ PackageSteps

SpecSession == Init /\ [][NextSession]_vars

\* several runs of a script on the same machine, each to its exit or until the
\* operator starts it again
SpecRerun == Init /\ [][NextSession \/ Rerun]_vars

\* ============================================ a call of the download function
\* largest value of the `retries` argument
MaxRetries == 3
\* what a failed attempt raises: an HTTP status, a connection failure, a peer that
\* has gone silent (urlopen(timeout=30) ends the wait with a timeout error)
NetErrors == {"HTTPError", "URLError", "TimeoutError"}
Terminal == {"returned", "raised"}
\* the call as it starts: `retries` is the argument, `fails` the number of leading
\* attempts the network fails, `attempt` the loop variable, `attempts` the network
\* attempts made, `errs` the errors they met, `sleeps` the delays slept, `last_err`
\* the local variable and `raised` what the call raised
NewFetch(fn, budget, n) ==
  [fn |-> fn, retries |-> budget, fails |-> n, state |-> "called", attempt |-> 1,
   attempts |-> 0, errs |-> <<>>, sleeps |-> <<>>, last_err |-> "unbound",
   raised |-> "none", result |-> <<>>]
FetchTarget == Target("startup2", "protonvpn")
\* what the target path can hold when the call starts: nothing, or the file an
\* earlier call left there
Leftovers == {"none", "stale"}
\* what a failed attempt leaves of the file system n: the error came before
\* open(target_path, "wb"), or after it, with the file cut short
AfterFailedAttempt(n) == {n, Put(n, FetchTarget, File("partial"))}

\* a download function called on its own: download_with_retries (startup2.py) with
\* any `retries`, or urlretrieve (startup.py), against any run of network failures
InitFetch ==
  /\ variant \in {"startup", "startup2"}
  /\ remote = "std" /\ root = TRUE /\ favorite_apps = <<>>
  /\ \E left \in Leftovers :
       LET machine == Put(MachineTree("kali"), repo_path, ClonedTree(remote))
       IN fs = IF left = "none" THEN machine ELSE Put(machine, FetchTarget, File(left))
  /\ pc = "download" /\ i = 1 /\ ts = 0 /\ clock = 0 /\ session = 1 /\ faults = 0
  /\ status = "Running" /\ exitCode = -1 /\ fs0 = fs
  /\ backups = {} /\ clobbered = {} /\ installed = {} /\ skipped = {} /\ failed = {}
  /\ pkg = "protonvpn" /\ called = 2 /\ cmdIx = 1 /\ pkgs = NoPackages
  /\ \E budget \in 0..MaxRetries, n \in 0..(MaxRetries + 1) :
       /\ n <= budget + 1
       /\ IF variant = "startup2"
          THEN fetch = NewFetch("download_with_retries", budget, n)
          ELSE budget = 1 /\ fetch = NewFetch("urlretrieve", budget, n)

fetchFrame == <<variant, remote, root, favorite_apps, pc, i, ts, clock, session, faults, status, exitCode,
                fs0, backups, clobbered, installed, skipped, failed, pkg, called,
                cmdIx, pkgs>>

\* download_with_retries: one pass of the loop body, the request and what follows it
FetchAttempt ==
  /\ fetch.state = "called" /\ fetch.fn = "download_with_retries"
  /\ fetch.attempt <= fetch.retries
  /\ IF fetch.attempt > fetch.fails
     THEN /\ fs' = Put(fs, FetchTarget, File(Artifact("protonvpn")))
          /\ fetch' = [fetch EXCEPT !.state = "returned", !.attempts = @ + 1,
                                    !.result = FetchTarget]
     ELSE /\ \E e \in NetErrors :
               fetch' = [fetch EXCEPT !.attempts = @ + 1, !.errs = Append(@, e),
                                      !.last_err = e,
                                      !.sleeps = Append(@, Backoff(fetch.attempt)),
                                      !.attempt = @ + 1]
          /\ fs' \in AfterFailedAttempt(fs)
  /\ UNCHANGED fetchFrame

\* download_with_retries: the loop has ended, `raise last_err`
FetchExhausted ==
  /\ fetch.state = "called" /\ fetch.fn = "download_with_retries"
  /\ fetch.attempt > fetch.retries
  /\ fetch' = [fetch EXCEPT !.state = "raised",
                            !.raised = IF fetch.last_err = "unbound"
                                       THEN "UnboundLocalError" ELSE fetch.last_err]
  /\ UNCHANGED <<fs, fetchFrame>>

\* urllib.request.urlretrieve(url, target): one request, no timeout: when the peer
\* goes silent the call waits on the socket and does not come back
Urlretrieve ==
  /\ fetch.state = "called" /\ fetch.fn = "urlretrieve"
  /\ IF fetch.fails = 0
     THEN /\ fs' = Put(fs, FetchTarget, File(Artifact("protonvpn")))
          /\ fetch' = [fetch EXCEPT !.state = "returned", !.attempts = @ + 1,
                                    !.result = FetchTarget]
     ELSE /\ \E e \in {"HTTPError", "URLError", "silent"} :
               fetch' = IF e = "silent"
                        THEN [fetch EXCEPT !.state = "blocked", !.attempts = @ + 1]
                        ELSE [fetch EXCEPT !.state = "raised", !.attempts = @ + 1,
                                           !.errs = Append(@, e), !.raised = e]
          /\ fs' \in AfterFailedAttempt(fs)
  /\ UNCHANGED fetchFrame

NextFetch == FetchAttempt \/ FetchExhausted \/ Urlretrieve
SpecFetch == InitFetch /\ [][NextFetch]_vars
\* the interpreter runs the call: a step that can be taken is taken
SpecFetchLive == SpecFetch /\ WF_vars(NextFetch)

\* ============================================================== the claims
\* the cataloged source of destination d in script v: WALLPAPER_FILES pairs a source
\* with a destination, wallpaper_map (startup3.py) a destination with a source, and
\* python.py reads the wallpapers at the top of the working copy
WallpaperSourceOf(v, d) ==
  IF v = "startup3"
  THEN wallpaper_map[CHOOSE j \in 1..Len(wallpaper_map) : wallpaper_map[j][1] = Base(d)][2]
  ELSE WALLPAPER_FILES[CHOOSE j \in 1..Len(WALLPAPER_FILES) : WALLPAPER_FILES[j][2] = Base(d)][1]
CatalogSource(v, d) ==
  IF d = grub_cfg_path THEN Append(repo_path, GRUB_CFG_SRC)
  ELSE IF d \in {boot_kali, usr_kali} THEN Append(repo_path, KALI_THEME_SRC)
  ELSE IF v = "python" THEN Append(repo_path, WallpaperSourceOf(v, d))
  ELSE Append(wallpaper_repo_path, WallpaperSourceOf(v, d))
\* the destinations script v installs
CatalogDests(v) ==
  {grub_cfg_path, boot_kali, usr_kali} \cup
  {Append(target_dir, f) :
     f \in IF v = "startup3" THEN {w[1] : w \in Range(wallpaper_map)}
           ELSE {w[2] : w \in Range(WALLPAPER_FILES)}}
\* the backup records of the current session
SessionBackups == {r \in backups : r.session = session}

\* C1: in every reachable state, every cataloged destination that existed when the
\* session started has its original content either still at the destination or at
\* the path a backup move of this session put it; it is never absent from both.
OriginalPreserved ==
  \A d \in Dests :
    Exists(fs0, d) =>
      \/ Lookup(fs, d) = Lookup(fs0, d)
      \/ \E r \in SessionBackups : r.orig = d /\ Lookup(fs, r.real) = Lookup(fs0, d)
\* a destination that existed was moved aside and then received the new content
OriginalMovedAside ==
  \E d \in Dests :
    /\ Exists(fs0, d) /\ d \in installed /\ Lookup(fs, d) # Lookup(fs0, d)
    /\ \E r \in SessionBackups : r.orig = d /\ Lookup(fs, r.real) = Lookup(fs0, d)

\* C2: no copy step writes over content that is still in place: no path a copy wrote
\* held content when the copy started, and every installed destination that existed
\* at session start has a completed backup move of this session.
NoCopyOverContent ==
  /\ clobbered = {}
  /\ \A d \in installed : Exists(fs0, d) => \E r \in SessionBackups : r.orig = d

\* C3: the backup path chosen for a move did not exist just before the move, and no
\* two moves of one run chose the same backup path.
BackupPathsFresh ==
  /\ \A r \in backups : r.fresh
  /\ \A r, q \in backups : (r.session = q.session /\ r # q) => r.chosen # q.chosen

\* C4: a backup, once made, stays: after any later step of any later session the
\* content a backup move put at its backup path is still there, unchanged.
BackupsKept == \A r \in backups : Lookup(fs, r.real) = r.node

\* C5: after a resource's copy step succeeded, its destination equals its cataloged
\* source in the working copy (for a directory: the same entries, none more, none
\* less, none a level too high or low), and if the destination existed before, the
\* chosen backup path holds the original.
InstalledEqualsSource ==
  \A d \in installed :
    /\ Lookup(fs, d) = Lookup(fs, CatalogSource(variant, d))
    /\ Exists(fs0, d) =>
         \E r \in SessionBackups : r.orig = d /\ Lookup(fs, r.chosen) = Lookup(fs0, d)

\* C6: a cataloged source missing from the working copy is fatal: no source is
\* passed over, and a session that is past the resource phase and still running has
\* found every cataloged source of its script.
MissingSourceIsFatal ==
  /\ skipped = {}
  /\ (status = "Running" /\ pc \in {"desktop_settings", "packages"}) =>
       \A d \in CatalogDests(variant) : Exists(fs, CatalogSource(variant, d))

\* the positions of the clone and resource-install steps of the four scripts
PrerequisiteSteps ==
  {"clone_repo", "git_clone", "setup_downloads", "grub_cfg_backup", "grub_cfg_copy",
   "kali_boot_backup", "kali_boot_copy", "kali_usr_backup", "kali_usr_copy",
   "wallpaper_prepare", "wallpaper_backup", "wallpaper_copy",
   "ensure_downloads", "s3_grub_cfg_backup", "s3_grub_cfg_copy", "s3_theme_backup",
   "s3_theme_copy", "s3_wallpaper_prepare", "s3_wallpaper_backup", "s3_wallpaper_copy",
   "py_clone", "py_chdir", "py_kali_boot_backup", "py_kali_boot_copy",
   "py_kali_usr_backup", "py_kali_usr_copy", "py_grub_cfg_backup", "py_grub_cfg_copy",
   "py_wallpaper_backup", "py_wallpaper_copy"}
\* an install command of package p has been invoked in this session
InstallInvoked(p) == pkgs[p].ran \cap InstallCmds(variant, p) # {}

\* C7: once the clone or a resource-install step has failed, the session is Aborted
\* and at its exit: it is at no later step (another resource, desktop settings, a
\* package, cleanup, the reboot prompt).
PrerequisiteFailureAborts ==
  failed \cap PrerequisiteSteps # {} => status = "Aborted" /\ pc = "exit"

\* C8: an install command of a package has been invoked only if the download of
\* that package delivered its file and, for ProtonVPN, the digest check has passed.
InstallOnlyAfterDownloadAndDigest ==
  \A p \in Packages :
    InstallInvoked(p) =>
      /\ pkgs[p].got > 0
      /\ p = "protonvpn" => pkgs[p].digest = "ok"

\* C9: in a script that holds an expected digest, once the check has compared a
\* downloaded file whose SHA-256 differs from it, the package ends Failed, none of
\* its install commands is invoked, and exactly one fetch delivered the file: the
\* download is not repeated.
MismatchNeverInstalls ==
  \A p \in Packages :
    ( /\ HasDigest(variant) /\ pkgs[p].digest # "none"
      /\ Sha256(pkgs[p].bytes) # PROTONVPN_SHA256 ) =>
        /\ pkgs[p].digest = "mismatch"
        /\ pkgs[p].outcome = "Failed"
        /\ ~InstallInvoked(p)
        /\ pkgs[p].got = 1
        /\ pc = "exit"
\* the check has compared a file that differs from the expected digest, after a
\* download that needed a retry
MismatchSeen ==
  /\ pkgs["protonvpn"].digest = "mismatch"
  /\ Sha256(pkgs["protonvpn"].bytes) # PROTONVPN_SHA256
  /\ pkgs["protonvpn"].gets > 1

\* C10: when a session in which the digest check failed has ended, the downloaded
\* file is no longer at its target path in the downloads directory.
MismatchedFileRemoved ==
  (status # "Running" /\ pkgs["protonvpn"].digest = "mismatch") =>
    ~Exists(fs, Target(variant, "protonvpn"))

\* C11: for every N from 0 up to `retries`, a call of download_with_retries whose
\* first N attempts fail and whose next attempt would succeed ends by returning the
\* target path, after exactly N + 1 network attempts.
FailuresThenSuccessReturns ==
  ( /\ fetch.state \in Terminal /\ fetch.fn = "download_with_retries"
    /\ fetch.fails <= fetch.retries ) =>
      /\ fetch.state = "returned"
      /\ fetch.result = FetchTarget
      /\ fetch.attempts = fetch.fails + 1

\* C12: for every value of `retries`, a call of download_with_retries that ends in
\* failure has made at least one attempt and raises the error its last attempt met.
LastErrorRaised ==
  (fetch.state = "raised" /\ fetch.fn = "download_with_retries") =>
    /\ Len(fetch.errs) > 0
    /\ fetch.raised = fetch.errs[Len(fetch.errs)]

\* C13: within one call of download_with_retries a delay has been slept between any
\* two consecutive attempts, and no delay is shorter than the delay before it.
BackoffNonDecreasing ==
  fetch.fn = "download_with_retries" =>
    /\ Len(fetch.sleeps) >= fetch.attempts - 1
    /\ \A k \in 2..Len(fetch.sleeps) : fetch.sleeps[k] >= fetch.sleeps[k - 1]
\* a call that returned on its third attempt or later: two delays or more were slept
ThreeAttemptsMade ==
  /\ fetch.fn = "download_with_retries" /\ fetch.state = "returned"
  /\ fetch.attempts >= 3 /\ Len(fetch.sleeps) >= 2

\* C14: every call of a download function ends: it returns the path or raises.
FetchTerminates == <>(fetch.state \in Terminal)

\* an install command of p returned non-zero, and so did every alternative the
\* script runs in its place (the commands that lead on to the same next command:
\* another package name, `apt-get install -f` after a failed dpkg)
InstallFailed(p) ==
  \E x \in Range(Cmds(variant, p)) :
    /\ x.role = "install" /\ x.name \in pkgs[p].nonzero
    /\ \A y \in Range(Cmds(variant, p)) : y.ok = x.ok => y.name \in pkgs[p].nonzero

\* C15: when a session in which an install command of one package failed has ended,
\* every package after it in the order of the calls has been downloaded and its
\* install command invoked.
LaterPackagesProceed ==
  LET order == PackageOrder(variant) IN
  status # "Running" =>
    \A j, k \in 1..Len(order) :
      (InstallFailed(order[j]) /\ j < k) =>
        pkgs[order[k]].gets > 0 /\ InstallInvoked(order[k])

\* C16: a package whose install command returned non-zero is never given the
\* outcome Success (its success line is not written), and once the session has
\* ended its outcome is Failed.
SuccessOnlyOnZeroExit ==
  \A p \in Packages :
    InstallFailed(p) =>
      /\ pkgs[p].outcome # "Success"
      /\ status # "Running" => pkgs[p].outcome = "Failed"

\* C17: a launch that failed to start (binary missing, permission denied) is not a
\* failure of the package and does not end the session: the package is not Failed
\* and the launch is not the step the session stopped at.
LaunchFailureHarmless ==
  \A p \in Packages :
    pkgs[p].launch \in {"missing", "denied"} =>
      /\ pkgs[p].outcome # "Failed"
      /\ (p \o ":launch") \notin failed

\* C18: when a session that entered the package phase has ended, no file this
\* session downloaded is left at its target path: the cleanup has run, whether or
\* not a package failed.
ArtifactsCleared ==
  (status # "Running" /\ called > 0) =>
    \A p \in Packages :
      (pkgs[p].gets > 0 /\ TargetName(variant, p) # "") => ~Exists(fs, Target(variant, p))

\* C19: a session that has ended is Aborted, with a non-zero exit status, when a
\* clone or resource step failed; when some step failed and every failed step is a
\* step of a package it is Done, each package with a failed step is recorded Failed
\* and every other package Success.
AbortedOnlyByPrerequisite ==
  LET FailedSteps(p) == {ph \in Range(Phases(variant, p)) : (p \o ":" \o ph) \in failed}
      OnlyPackagesFailed ==
        /\ failed # {}
        /\ \A f \in failed : \E p \in Packages : \E ph \in FailedSteps(p) : f = p \o ":" \o ph
  IN status # "Running" =>
       /\ failed \cap PrerequisiteSteps # {} => status = "Aborted" /\ exitCode # 0
       /\ OnlyPackagesFailed =>
            /\ status = "Done"
            /\ \A p \in Packages :
                 pkgs[p].outcome = IF FailedSteps(p) # {} THEN "Failed" ELSE "Success"

\* C20: the order of the states.  In a session that started without a working copy,
\* what is at the working copy's path was put there by the clone; the first
\* install_* call is made only after every cataloged resource has been installed
\* and no clone or resource step has failed; the cleanup and what follows it start
\* only after the last install_* call.
StateOrder ==
  /\ (~Exists(fs0, repo_path) /\ Exists(fs, repo_path)) =>
       IsDir(fs, Append(repo_path, ".git"))
  /\ called > 0 =>
       /\ CatalogDests(variant) \subseteq installed
       /\ failed \cap PrerequisiteSteps = {}
  /\ pc \in {"cleanup", "prompt"} => called = Len(PackageOrder(variant))

\* C21: one step at a time: while a download is still in progress, no command is
\* started and no other download is started.
OneStepAtATime ==
  [][ (\E p \in Packages : pkgs[p].job = "running") =>
        \A q \in Packages : pkgs'[q].ran = pkgs[q].ran /\ pkgs'[q].gets = pkgs[q].gets ]_vars

\* C22: in a session after the first that finds the downloads directory of an
\* earlier session, the steps that obtain the working copy and prepare the
\* downloads directory do not fail unless an external operation fails.
DownloadsDirTolerated ==
  [][ ( /\ session > 1 /\ IsDir(fs, downloads_dir) /\ faults' = faults
        /\ pc \in {"clone_repo", "git_clone", "setup_downloads", "ensure_downloads"} ) =>
          status' = "Running" ]_vars

\* C23: the resource install is idempotent: in a second run, every destination the
\* run installed that already held its cataloged content holds the same content
\* afterwards, every installed destination that existed got exactly one new backup
\* at a path that was free, and the backups of the first run are unchanged.
ResourceInstallIdempotent ==
  session = 2 =>
    /\ \A d \in installed :
         (Exists(fs0, d) /\ Lookup(fs0, d) = Lookup(fs0, CatalogSource(variant, d))) =>
           Lookup(fs, d) = Lookup(fs0, d)
    /\ \A d \in installed :
         Exists(fs0, d) =>
           /\ Cardinality({r \in SessionBackups : r.orig = d}) = 1
           /\ \A r \in SessionBackups : r.orig = d => r.fresh /\ r.real = r.chosen
    /\ \A r \in backups : r.session = 1 => Lookup(fs, r.real) = r.node

BackupStepOrigin ==
  CASE pc \in {"grub_cfg_backup", "s3_grub_cfg_backup", "py_grub_cfg_backup"} -> grub_cfg_path
    [] pc \in {"kali_boot_backup", "py_kali_boot_backup"} -> boot_kali
    [] pc \in {"kali_usr_backup", "py_kali_usr_backup"} -> usr_kali
    [] pc = "s3_theme_backup" -> Append(S3ThemeDir, "kali")
    [] pc \in {"wallpaper_backup", "py_wallpaper_backup"} ->
         Append(target_dir, WALLPAPER_FILES_TO_BACKUP[i])
    [] pc = "s3_wallpaper_backup" -> Append(target_dir, wallpaper_map[i][1])
    [] OTHER -> <<>>

\* C25: a backup step whose destination does not exist is a no-op: it records no
\* backup, every path that existed keeps its kind and content (nothing is moved,
\* renamed or changed), and it creates no file, at a backup path or elsewhere.
AbsentDestinationNoBackup ==
  [][ (BackupStepOrigin # <<>> /\ ~Exists(fs, BackupStepOrigin)) =>
        /\ backups' = backups
        /\ \A p \in AllPaths(fs) :
             /\ Lookup(fs', p).kind = Lookup(fs, p).kind
             /\ Lookup(fs', p).data = Lookup(fs, p).data
        /\ \A p \in AllPaths(fs') \ AllPaths(fs) : IsDir(fs', p) ]_vars
\* python.py has gone through the backup step of a grub.cfg that was not there
AbsentGrubCfgPassed ==
  /\ variant = "python" /\ pc = "py_grub_cfg_copy" /\ status = "Running"
  /\ ~Exists(fs, grub_cfg_path) /\ ~Exists(fs0, grub_cfg_path)
  /\ \A r \in SessionBackups : r.orig # grub_cfg_path

\* ------------------------------------------- make_unique_path on used names
\* the suffixes of backup names earlier runs can have left: path_base itself, then
\* path_base.<timestamp> and path_base.<timestamp>.<counter>
UsedSuffixes == <<"", ".0", ".0.1", ".0.2", ".1", ".1.1">>
\* the tree n with the name path_base \o UsedSuffixes[k] taken for every k in S
WithUsedNames(n, path_base, S) ==
  LET d == Lookup(n, Parent(path_base))
      taken == [x \in {Base(path_base) \o UsedSuffixes[k] : k \in S} |-> File("old")]
  IN IF S = {} THEN n
     ELSE Put(n, Parent(path_base), Dir(IF d.kind = "dir" THEN taken @@ d.kids ELSE taken))
\* startup.py or startup2.py started on a Kali machine where any of the backup names
\* of grub.cfg and of the wallpapers' first file are taken
InitUnique ==
  /\ variant \in {"startup", "startup2"}
  /\ remote = "std" /\ root \in BOOLEAN /\ favorite_apps = <<>>
  /\ \E S \in SUBSET DOMAIN UsedSuffixes, cloned \in BOOLEAN :
       LET machine == IF cloned THEN Put(MachineTree("kali"), repo_path, ClonedTree(remote))
                      ELSE MachineTree("kali")
       IN fs = WithUsedNames(WithUsedNames(machine, WithSuffix(grub_cfg_path, ".b"), S),
                             Append(backup_dir, WALLPAPER_FILES_TO_BACKUP[1] \o ".b"), S)
  /\ pc = StartPc(variant) /\ i = 1 /\ ts = 0 /\ clock = 0 /\ session = 1 /\ faults = 0
  /\ status = "Running" /\ exitCode = -1 /\ fs0 = fs
  /\ backups = {} /\ clobbered = {} /\ installed = {} /\ skipped = {} /\ failed = {}
  /\ pkg = "none" /\ called = 0 /\ cmdIx = 1 /\ pkgs = NoPackages /\ fetch = NoFetch
SpecUnique == InitUnique /\ [][StartupSteps]_vars

\* the path_base the backup step at the current position passes to make_unique_path
BackupStepBase ==
  CASE pc = "grub_cfg_backup" -> WithSuffix(grub_cfg_path, ".b")
    [] pc = "kali_boot_backup" -> BootThemes \o <<"backup", "kali.b">>
    [] pc = "kali_usr_backup" -> UsrThemes \o <<"backup", "kali.b">>
    [] pc = "wallpaper_backup" -> Append(backup_dir, WALLPAPER_FILES_TO_BACKUP[i] \o ".b")
    [] OTHER -> <<>>
\* the k-th name of the sequence base.<t>, base.<t>.1, base.<t>.2, ...
Candidate(path_base, t, k) ==
  WithSuffix(path_base, "." \o ToString(t) \o (IF k = 0 THEN "" ELSE "." \o ToString(k)))
\* the first free name: path_base when it is free, else the first free candidate,
\* found among as many candidates as the tree has paths, plus one
FirstFree(n, path_base, t) ==
  IF ~Exists(n, path_base) THEN path_base
  ELSE LET k == CHOOSE k \in 0..Cardinality(AllPaths(n)) :
                  /\ ~Exists(n, Candidate(path_base, t, k))
                  /\ \A j \in 0..(k - 1) : Exists(n, Candidate(path_base, t, j))
       IN Candidate(path_base, t, k)

\* C26: the path a backup move of startup.py/startup2.py got from make_unique_path
\* is path_base when that is free and else the first free name of path_base.<ts>,
\* path_base.<ts>.1, path_base.<ts>.2, ..., a function of the tree and the clock; it
\* does not exist when it is returned.
UniquePathIsFirstFree ==
  [][ \A r \in backups' \ backups :
        /\ r.chosen = FirstFree(fs, BackupStepBase, clock')
        /\ r.chosen = make_unique_path(fs, BackupStepBase, clock')
        /\ ~Exists(fs, r.chosen) ]_vars
\* the counter was needed: path_base, path_base.0 and path_base.0.1 were taken
CounterNameChosen ==
  \E r \in backups : r.orig = grub_cfg_path /\ r.chosen = WithSuffix(grub_cfg_path, ".b.0.2")

\* C27: the happy path ends in Done: a session that runs as root on a machine
\* with no working copy, against the repository as published and with no external
\* operation failing, does not end otherwise than Done, after main has called all
\* five install functions.
HappyPathEndsDone ==
  ( /\ status # "Running" /\ session = 1 /\ faults = 0 /\ root
    /\ exitCode # 2 /\ ~Exists(fs0, repo_path) /\ remote = "std" ) =>
      status = "Done" /\ called = Len(PackageOrder(variant))

\* C28: when a session that met no external failure has aborted at a resource step
\* and a cataloged source is missing from the working copy, the destination of that
\* source, if it existed when the session started, is at its original path with its
\* original content.
MissingSourceAbortKeepsDestination ==
  \A d \in CatalogDests(variant) :
    ( /\ status = "Aborted" /\ faults = 0 /\ failed # {} /\ failed \subseteq PrerequisiteSteps
      /\ IsDir(fs, Append(repo_path, ".git"))
      /\ ~Exists(fs, CatalogSource(variant, d))
      /\ Exists(fs0, d) ) =>
        Lookup(fs, d) = Lookup(fs0, d)

\* C29: once the wallpaper phase of a session has completed with no step failed and
\* no source passed over, every wallpaper the session moved to a backup is back at
\* its original path, put there by a copy step of the session.
BackedUpWallpapersReplaced ==
  ( /\ status = "Running" /\ pc \in {"desktop_settings", "packages"}
    /\ failed = {} /\ skipped = {} ) =>
      \A r \in SessionBackups :
        Parent(r.orig) = target_dir => Exists(fs, r.orig) /\ r.orig \in installed

\* C30: startup3.py started where the working-copy directory does not exist runs
\* git clone: once it is past that step, no external operation having failed, the
\* directory holds a clone of the repository.
CloneWhenNoWorkingCopy ==
  ( /\ variant = "startup3" /\ ~Exists(fs0, repo_path)
    /\ pc # "ensure_downloads" /\ faults = 0 ) =>
      IsDir(fs, Append(repo_path, ".git"))

\* C31: a process that is not root ends at once: every step it takes is the exit
\* with status 2, which runs no command and leaves the file system as it is.
NonRootExitsBeforeAnyStep ==
  [][ (~root /\ status = "Running") =>
        /\ status' = "Aborted" /\ exitCode' = 2
        /\ fs' = fs /\ pkgs' = pkgs /\ failed' = failed /\ root' = root ]_vars

\* C32: an installation found at /opt/Telegram is removed or changed only after the
\* session has downloaded the new archive: while no download of it has delivered
\* the file, /opt/Telegram is as it was when the session started.
TelegramKeptUntilDownloaded ==
  (Exists(fs0, opt_telegram) /\ pkgs["telegram"].got = 0) =>
    Lookup(fs, opt_telegram) = Lookup(fs0, opt_telegram)

CloneRepoKeepsWorkingCopy ==
  [][ (Checked /\ pc \in {"clone_repo", "git_clone"}) =>
        LET old == Lookup(fs, repo_path)
            bak == WithSuffix(repo_path, ".bak-" \o ToString(clock'))
        IN /\ (pc = "clone_repo" /\ IsDir(fs, repo_path)) =>
                /\ pc' = "setup_downloads" => fs' = fs
                /\ pc' = "git_clone" =>
                     /\ ~Exists(fs', repo_path)
                     /\ old \in {Lookup(fs', bak), Lookup(fs', Append(bak, Base(repo_path)))}
                /\ pc' = "exit" => fs' = fs
           /\ (pc = "git_clone" \/ ~IsDir(fs, repo_path)) =>
                \/ fs' = fs
                \/ ~Exists(fs, repo_path) /\ fs' = Put(fs, repo_path, ClonedTree(remote)) ]_vars
\* git pull failed, the working copy was moved aside, and the fresh clone is in place
WorkingCopyMovedAside ==
  /\ Checked /\ pc = "setup_downloads" /\ IsDir(fs0, repo_path)
  /\ \E t \in 0..MaxClock :
       Lookup(fs, WithSuffix(repo_path, ".bak-" \o ToString(t))) = Lookup(fs0, repo_path)
  /\ IsDir(fs, Append(repo_path, ".git"))

\* ------------------------------------------------ cleanup_downloads alone
\* main of startup.py or startup2.py at the call of cleanup_downloads, the
\* downloads directory missing or holding any of the downloaded files
InitCleanup ==
  /\ variant \in {"startup", "startup2"}
  /\ remote = "std" /\ root = TRUE /\ favorite_apps = <<>>
  /\ \E S \in SUBSET Packages, missing \in BOOLEAN :
       LET machine == Put(MachineTree("kali"), repo_path, ClonedTree(remote))
           entries == [x \in {Base(Target(variant, p)) : p \in S} |-> File("installer")]
       IN /\ missing => S = {}
          /\ fs = IF missing THEN machine
                  ELSE Put(machine, downloads_dir, IF S = {} THEN EmptyDir ELSE Dir(entries))
  /\ pc = "cleanup" /\ i = 1 /\ ts = 0 /\ clock = 0 /\ session = 1 /\ faults = 0
  /\ status = "Running" /\ exitCode = -1 /\ fs0 = fs
  /\ backups = {} /\ clobbered = {} /\ installed = {} /\ skipped = {} /\ failed = {}
  /\ pkg = "none" /\ called = Cardinality(Packages) /\ cmdIx = 1 /\ pkgs = NoPackages
  /\ fetch = NoFetch
SpecCleanup == InitCleanup /\ [][Cleanup \/ RebootPrompt]_vars

\* C35: cleanup_downloads never fails the session: the script goes on to the reboot
\* prompt whether the downloads directory is missing or an entry cannot be removed;
\* only entries that could not be removed are left, nothing else is touched, and when
\* every removal succeeds the downloads directory is still there, empty.
CleanupNeverFails ==
  [][ (pc = "cleanup" /\ status = "Running") =>
        /\ pc' = "prompt" /\ status' = "Running" /\ failed' = failed
        /\ IF IsDir(fs, downloads_dir)
           THEN /\ IsDir(fs', downloads_dir)
                /\ fs' = Put(fs, downloads_dir, Lookup(fs', downloads_dir))
                /\ Cardinality(DOMAIN Lookup(fs', downloads_dir).kids) <= faults' - faults
                /\ \A e \in DOMAIN Lookup(fs', downloads_dir).kids :
                     Lookup(fs', Append(downloads_dir, e)) = Lookup(fs, Append(downloads_dir, e))
           ELSE fs' = fs ]_vars
\* every removal succeeded: the directory that held files is there and empty
DownloadsEmptied ==
  /\ pc = "prompt" /\ status = "Running" /\ faults = 0
  /\ IsDir(fs0, downloads_dir) /\ Lookup(fs0, downloads_dir) # EmptyDir
  /\ Lookup(fs, downloads_dir) = EmptyDir

\* C36: pinning Brave is idempotent and well-formed: a pin step that finds the desktop
\* file and meets no external failure leaves the Brave entry exactly once in the
\* favorites, keeps every earlier entry in its place, and writes a text that
\* `gsettings set` accepts, whatever the list was, the empty list included.
BravePinnedOnce ==
  [][ (InPackage("pin") /\ DesktopFile /\ faults' = faults) =>
        /\ Cardinality({k \in DOMAIN favorite_apps' : favorite_apps'[k] = desktop_file}) = 1
        /\ Len(favorite_apps') \in {Len(favorite_apps), Len(favorite_apps) + 1}
        /\ SubSeq(favorite_apps', 1, Len(favorite_apps)) = favorite_apps
        /\ (\A k \in DOMAIN favorite_apps : favorite_apps[k] # desktop_file) =>
             gsettings_set(new_favs(variant, gsettings_get(favorite_apps))).returncode = 0 ]_vars
\* a later session passed the pin step over a list that already held the Brave entry,
\* appended after the entries the first session found
PinnedOnceAfterRerun ==
  /\ session > 1 /\ pkg = "brave" /\ pc = "report" /\ status = "Running"
  /\ \E l \in FavStarts : l # <<>> /\ favorite_apps = Append(l, desktop_file)

====
